---- MODULE Spec2Model ----
(***************************************************************************)
(* The old-user scan session of ChatInterface (src/unnamed/part_006,       *)
(* lines 1-349) as a state machine: camera acquisition, the                *)
(* self-rescheduling scan loop, its timers, the effect cleanup and the     *)
(* handlers reachable from the rendered phases.                            *)
(*                                                                         *)
(* Time is the value of Date.now() in milliseconds.  Every await of the    *)
(* code (getUserMedia, captureVideoFrameBlob, fetch, realtime.connect) is  *)
(* a point where other callbacks run and the clock may advance.            *)
(***************************************************************************)
EXTENDS Integers, Sequences, FiniteSets, TLC

VARIABLES
    isOldUser,          \* prop isOldUser
    mounted,            \* the component is mounted
    phase,              \* useState<ChatPhase>
    recognizedName,     \* useState recognizedName
    scanProgress,       \* useState scanProgress (percent)
    error,              \* useState error: "none", "camera" or "realtime"
    cancelled,          \* closure variable of the scan effect
    scanStartedAt,      \* closure variable of the scan effect
    now,                \* Date.now()
    gum,                \* getUserMedia promise: "none", "pending", "done", "failed"
    metaPending,        \* onloadedmetadata is registered and has not fired yet
    srcObject,          \* the video element's srcObject is the camera stream
    trackLive,          \* the camera stream's tracks are live
    timers,             \* pending setTimeout callbacks: [id, kind, due]
    scanTimerRef,       \* scanTimerRef.current (0 is null)
    backHomeTimerRef,   \* backHomeTimerRef.current (0 is null)
    inflight,           \* ticks of the loop suspended at an await
    realtimeRef,        \* realtimeRef.current is a client
    connecting,         \* realtime.connect() is pending
    userRecognizedCalls,\* names passed to onUserRecognized, in call order
    endChatCalls,       \* number of calls of onEndChat
    foundResponses,     \* identify responses that took the found branch
    outcomes,           \* terminal outcomes of the session, in order
    lastTick,           \* how the last finished tick ended ("none" before)
    lastRtt,            \* round trip of its identify request, until the next
                        \* tick starts; -1 without one
    foundElapsed,       \* elapsed time when the found branch last ran, or -1
    events,             \* rows of identify_metrics_events, in rowid order
    singleton,          \* the FaceMetricsDb singleton exists (the file is open)
    dbNow,              \* datetime('now') of the metrics store, in days (a
                        \* created_at is kept to the day)
    call,               \* the last server-side call: operation, input, fault
    result,             \* what that call gave its caller: a return, a throw
                        \* or an HTTP response
    logged,             \* console.error calls made by that call
    lastId,             \* the largest id an INSERT was ever given, 0 before
    regMounted,         \* RegistrationFlow is mounted (the page shows it)
    regState,           \* useState<RegistrationState>
    regName,            \* useState name: "" or a name that is not blank
    capturedBlob,       \* useState capturedBlob is a Blob
    regError,           \* useState error of RegistrationFlow, "none" for null
    notice,             \* useState notice is a text
    regGum,             \* getUserMedia promise of RegistrationFlow
    regMetaPending,     \* its onloadedmetadata is registered, has not fired
    regSrcObject,       \* its video element's srcObject is the camera stream
    regTrackLive,       \* the tracks of that stream are live
    captureInflight,    \* handleCapture is suspended at its await
    saveInflight,       \* handleSave is suspended at its await fetch
    saveCount,          \* register requests sent so far
    completeTimers,     \* pending setTimeout callbacks of handleSave: the
                        \* canonical name of each
    onCompleteCalls,    \* calls of onComplete: the name, and whether the
                        \* flow was mounted at the call
    conversationStore,  \* the Map of the chat route in insertion order:
                        \* [sessionId, history]
    chatPending,        \* chat requests suspended at await fetch
    openaiUp,           \* the completions API answers with success
    chatPosts           \* chat requests that passed validation so far

vars == <<isOldUser, mounted, phase, recognizedName, scanProgress, error,
          cancelled, scanStartedAt, now, gum, metaPending, srcObject,
          trackLive, timers, scanTimerRef, backHomeTimerRef, inflight,
          realtimeRef, connecting, userRecognizedCalls, endChatCalls,
          foundResponses, outcomes, lastTick, lastRtt, foundElapsed,
          events, singleton, dbNow, call, result, logged, lastId,
          regMounted, regState, regName, capturedBlob, regError, notice,
          regGum, regMetaPending, regSrcObject, regTrackLive,
          captureInflight, saveInflight, saveCount, completeTimers,
          onCompleteCalls, conversationStore, chatPending, openaiUp,
          chatPosts>>

\* The state of the server side: the metrics store and the last call made to
\* it or to a route.  The browser component never touches it.
metricsVars == <<events, singleton, dbNow, call, result, logged, lastId>>

\* The state of RegistrationFlow (src/unnamed/part_006, lines 397-675).
regVars == <<regMounted, regState, regName, capturedBlob, regError, notice,
             regGum, regMetaPending, regSrcObject, regTrackLive,
             captureInflight, saveInflight, saveCount, completeTimers,
             onCompleteCalls>>

\* The state of the chat route (src/app/api/chat/route.ts).
conversationVars == <<conversationStore, chatPending, openaiUp, chatPosts>>

\* The variables of the browser component, which no server call touches.
scanVars == <<isOldUser, mounted, phase, recognizedName, scanProgress, error,
              cancelled, scanStartedAt, now, gum, metaPending, srcObject,
              trackLive, timers, scanTimerRef, backHomeTimerRef, inflight,
              realtimeRef, connecting, userRecognizedCalls, endChatCalls,
              foundResponses, outcomes, lastTick, lastRtt, foundElapsed>>

SCAN_DURATION_MS == 10000
SCAN_INTERVAL_MS == 400
BACK_HOME_DELAY_MS == 2500

\* Bounds of the model.
MaxNow == 14800
Steps == {400, 9600}

\* Date.now() when the component is constructed.
Epoch == 1200

Null == "null"
Names == {"asha", "ravi"}
\* data.name of an identify response: a usable name, or missing/blank.
NoName == ""
ResponseNames == Names \cup {NoName}

Min(a, b) == IF a < b THEN a ELSE b

\* The <video> element is rendered only in the SCANNING phase, so
\* videoRef.current is non-null exactly while it is on screen.
VideoRef == mounted /\ phase = "SCANNING"

\* setTimeout returns a handle never handed out before; handles that no ref
\* and no pending timer holds are interchangeable, so the smallest is reused.
FreshTimerId ==
    CHOOSE n \in 1..(Cardinality(timers) + 3) :
        /\ n \notin {t.id : t \in timers}
        /\ n # scanTimerRef
        /\ n # backHomeTimerRef

FreshTickId ==
    CHOOSE n \in 1..(Cardinality(inflight) + 1) : n \notin {t.id : t \in inflight}

\* clearTimeout(handle) on the set of pending timers.
ClearTimeout(tm, handle) == {t \in tm : t.id # handle}

\* stopCamera: the stream of videoRef.current, if any, with its tracks stopped.
StopCameraTrack(ref) == IF ref /\ srcObject THEN FALSE ELSE trackLive
StopCameraSrc(ref) == IF ref THEN FALSE ELSE srcObject

\* A state setter of an unmounted component does nothing.
SetState(old, new) == IF mounted THEN new ELSE old

\* matchedName: data.name trimmed when it is a non-blank string, else "Guest".
MatchedName(name) == IF name \in Names THEN name ELSE "Guest"

(***************************************************************************)
(* The server side: the metrics store (src/unnamed/part_005) and the       *)
(* routes that write to it.                                                *)
(***************************************************************************)

\* A JavaScript value, as far as the routes and the store tell values apart:
\* its type, its number (milliseconds, counted in thousandths: 12345 is
\* 12.345 ms) and its text.  A text is the sequence of its pieces, each a
\* blank " " or a run of other characters.
Undefined == [t |-> "undefined", n |-> 0, s |-> <<>>]
JsNull == [t |-> "null", n |-> 0, s |-> <<>>]
Number(n) == [t |-> "number", n |-> n, s |-> <<>>]
NaN == [t |-> "NaN", n |-> 0, s |-> <<>>]
Infinity == [t |-> "Infinity", n |-> 0, s |-> <<>>]
Str(s) == [t |-> "string", n |-> 0, s |-> s]

\* typeof value === "number"
TypeofNumber(value) == value.t \in {"number", "NaN", "Infinity"}

\* Number.isFinite(value), for a value of type number
NumberIsFinite(value) == value.t = "number"

\* value ?? other
Nullish(value, other) ==
    IF value.t \in {"undefined", "null"} THEN other ELSE value

\* String.prototype.trim
RECURSIVE TrimStart(_)
TrimStart(s) == IF s # <<>> /\ Head(s) = " " THEN TrimStart(Tail(s)) ELSE s

RECURSIVE TrimEnd(_)
TrimEnd(s) ==
    IF s # <<>> /\ s[Len(s)] = " "
      THEN TrimEnd(SubSeq(s, 1, Len(s) - 1))
      ELSE s

Trim(s) == TrimEnd(TrimStart(s))

\* The server has made no call yet.
NoCall == [op |-> "none", arg |-> <<>>, fault |-> "none"]
NoResult == [kind |-> "none"]

\* The state after construction, but for the call the server is about to
\* make.
InitExceptCall ==
    /\ isOldUser \in BOOLEAN
    /\ mounted = TRUE
    /\ phase = IF isOldUser THEN "SCANNING" ELSE "FOUND_WAITING_GESTURE"
    /\ recognizedName \in (IF isOldUser THEN {Null} ELSE Names)
    /\ scanProgress = 0
    /\ error = "none"
    /\ cancelled = FALSE
    /\ scanStartedAt = 0
    /\ now = Epoch
    /\ gum = IF isOldUser THEN "pending" ELSE "none"
    /\ metaPending = FALSE
    /\ srcObject = FALSE
    /\ trackLive = FALSE
    /\ timers = {}
    /\ scanTimerRef = 0
    /\ backHomeTimerRef = 0
    /\ inflight = {}
    /\ realtimeRef = FALSE
    /\ connecting = FALSE
    /\ userRecognizedCalls = <<>>
    /\ endChatCalls = 0
    /\ foundResponses = 0
    /\ outcomes = <<>>
    /\ lastTick = "none"
    /\ lastRtt = 0 - 1
    /\ foundElapsed = -1
    /\ events = <<>>
    /\ singleton = FALSE
    /\ dbNow = 0
    /\ result = NoResult
    /\ logged = 0
    /\ lastId = 0
    /\ regMounted = FALSE
    /\ regState = "LOADING"
    /\ regName = ""
    /\ capturedBlob = FALSE
    /\ regError = "none"
    /\ notice = FALSE
    /\ regGum = "none"
    /\ regMetaPending = FALSE
    /\ regSrcObject = FALSE
    /\ regTrackLive = FALSE
    /\ captureInflight = FALSE
    /\ saveInflight = FALSE
    /\ saveCount = 0
    /\ completeTimers = <<>>
    /\ onCompleteCalls = <<>>
    /\ conversationStore = <<>>
    /\ chatPending = {}
    /\ openaiUp = TRUE
    /\ chatPosts = 0

Init ==
    /\ InitExceptCall
    /\ call = NoCall

\* The horizon MaxNow bounds the scan.  A back-home timer that is not due yet
\* is followed past the horizon, in the smallest step, until it is due.
BackHomePending(d) ==
    /\ d = SCAN_INTERVAL_MS
    /\ \E t \in timers : t.kind = "backHome" /\ now < t.due

\* The clock advances while the event loop is idle.  The code reads it only
\* as a difference from scanStartedAt and through timer delays, so it is
\* followed while a tick or a timer is outstanding.
Advance ==
    /\ inflight # {} \/ timers # {}
    /\ \E d \in Steps :
        /\ now + d <= MaxNow \/ BackHomePending(d)
        /\ now' = now + d
    /\ UNCHANGED <<metricsVars, regVars, conversationVars,
                   isOldUser, mounted, phase, recognizedName, scanProgress,
                   error, cancelled, scanStartedAt, gum, metaPending,
                   srcObject, trackLive, timers, scanTimerRef,
                   backHomeTimerRef, inflight, realtimeRef, connecting,
                   userRecognizedCalls, endChatCalls, foundResponses, outcomes,
                   lastTick, lastRtt, foundElapsed>>

\* init: getUserMedia resolves with a live stream.
GetUserMediaResolve ==
    /\ gum = "pending"
    /\ gum' = "done"
    /\ IF cancelled
         THEN \* stream.getTracks().forEach(track => track.stop())
              /\ trackLive' = FALSE
              /\ UNCHANGED <<srcObject, metaPending>>
         ELSE IF VideoRef
           THEN /\ trackLive' = TRUE
                /\ srcObject' = TRUE
                /\ metaPending' = TRUE
           ELSE /\ trackLive' = TRUE
                /\ UNCHANGED <<srcObject, metaPending>>
    /\ UNCHANGED <<metricsVars, regVars, conversationVars,
                   isOldUser, mounted, phase, recognizedName, scanProgress,
                   error, cancelled, scanStartedAt, now, timers, scanTimerRef,
                   backHomeTimerRef, inflight, realtimeRef, connecting,
                   userRecognizedCalls, endChatCalls, foundResponses, outcomes,
                   lastTick, lastRtt, foundElapsed>>

\* A rejected getUserMedia handled as a timeout: NOT_RECOGNIZED and the
\* automatic return home.
GetUserMediaRejectAsTimeout ==
    /\ gum = "pending"
    /\ gum' = "failed"
    /\ error' = SetState(error, "camera")
    /\ phase' = SetState(phase, "NOT_RECOGNIZED")
    /\ backHomeTimerRef' = FreshTimerId
    /\ timers' = timers \cup {[id |-> FreshTimerId, kind |-> "backHome",
                               due |-> now + BACK_HOME_DELAY_MS]}
    /\ UNCHANGED <<metricsVars, regVars, conversationVars,
                   isOldUser, mounted, recognizedName, scanProgress,
                   cancelled, scanStartedAt, now, metaPending, srcObject,
                   trackLive, scanTimerRef, inflight, realtimeRef, connecting,
                   userRecognizedCalls, endChatCalls, foundResponses,
                   outcomes, lastTick, lastRtt, foundElapsed>>

\* init: getUserMedia rejects (permission denied, no device).
GetUserMediaReject ==
    /\ gum = "pending"
    /\ gum' = "failed"
    /\ error' = SetState(error, "camera")
    /\ phase' = SetState(phase, "ERROR")
    /\ UNCHANGED <<metricsVars, regVars, conversationVars,
                   isOldUser, mounted, recognizedName, scanProgress,
                   cancelled, scanStartedAt, now, metaPending, srcObject,
                   trackLive, timers, scanTimerRef, backHomeTimerRef,
                   inflight, realtimeRef, connecting, userRecognizedCalls,
                   endChatCalls, foundResponses, outcomes,
                   lastTick, lastRtt, foundElapsed>>

\* scanProgress as set by loop: min(elapsed / SCAN_DURATION_MS * 100, 100).
Progress(elapsed) == Min((elapsed * 100) \div SCAN_DURATION_MS, 100)

\* LoopTimeout without the back-home timer.
LoopTimeoutNoReturn(elapsed, tm) ==
    /\ scanProgress' = Progress(elapsed)
    /\ scanTimerRef' = 0
    /\ trackLive' = StopCameraTrack(TRUE)
    /\ srcObject' = StopCameraSrc(TRUE)
    /\ phase' = "NOT_RECOGNIZED"
    /\ backHomeTimerRef' = 0
    /\ timers' = ClearTimeout(ClearTimeout(tm, scanTimerRef), backHomeTimerRef)
    /\ outcomes' = Append(outcomes, "timedOut")
    /\ UNCHANGED inflight

\* loop, elapsed >= SCAN_DURATION_MS: stopScanTimer, stopCamera,
\* NOT_RECOGNIZED, the back-home timer; no frame is captured.
LoopTimeout(elapsed, tm) ==
    LET cleared == ClearTimeout(ClearTimeout(tm, scanTimerRef),
                                backHomeTimerRef)
        id == CHOOSE n \in 1..(Cardinality(cleared) + 1) :
                  n \notin {t.id : t \in cleared}
    IN /\ scanProgress' = Progress(elapsed)
       /\ scanTimerRef' = 0
       /\ trackLive' = StopCameraTrack(TRUE)
       /\ srcObject' = StopCameraSrc(TRUE)
       /\ phase' = "NOT_RECOGNIZED"
       /\ backHomeTimerRef' = id
       /\ timers' = cleared \cup
            {[id |-> id, kind |-> "backHome", due |-> now + BACK_HOME_DELAY_MS]}
       /\ outcomes' = Append(outcomes, "timedOut")
       /\ UNCHANGED inflight

\* LoopCapture with the next tick also scheduled when the tick starts, as a
\* fixed-rate poll would do.
LoopCaptureAndSchedule(elapsed, tm) ==
    /\ scanProgress' = Progress(elapsed)
    /\ inflight' = inflight \cup
         {[id |-> FreshTickId, stage |-> "capture", began |-> elapsed,
           sent |-> 0 - 1]}
    /\ scanTimerRef' = FreshTimerId
    /\ timers' = tm \cup {[id |-> FreshTimerId, kind |-> "scan",
                           due |-> now + SCAN_INTERVAL_MS]}
    /\ UNCHANGED <<phase, srcObject, trackLive, backHomeTimerRef, outcomes>>

\* loop, elapsed < SCAN_DURATION_MS: the tick suspends at
\* await captureVideoFrameBlob; nothing is scheduled until it finishes.
LoopCapture(elapsed, tm) ==
    /\ scanProgress' = Progress(elapsed)
    /\ inflight' = inflight \cup
         {[id |-> FreshTickId, stage |-> "capture", began |-> elapsed,
           sent |-> 0 - 1]}
    /\ timers' = tm
    /\ UNCHANGED <<phase, srcObject, trackLive, scanTimerRef,
                   backHomeTimerRef, outcomes>>

\* The deadline test with > for >=.
PastDeadlineStrict(elapsed) == elapsed > SCAN_DURATION_MS

\* The deadline test that lets one more full tick through.
PastDeadlineOneTickLate(elapsed) ==
    elapsed >= SCAN_DURATION_MS + SCAN_INTERVAL_MS

\* The deadline test of loop.
PastDeadline(elapsed) == elapsed >= SCAN_DURATION_MS

\* The body of loop up to its first await, run with scan start `start` and
\* pending timers `tm`.
Loop(start, tm) ==
    IF cancelled \/ ~VideoRef
      THEN /\ timers' = tm
           /\ UNCHANGED <<phase, scanProgress, srcObject, trackLive,
                          scanTimerRef, backHomeTimerRef, inflight, outcomes>>
      ELSE IF PastDeadline(now - start)
             THEN LoopTimeout(now - start, tm)
             ELSE LoopCapture(now - start, tm)

\* videoRef.current.onloadedmetadata: play, stamp the scan start, start the loop.
LoadedMetadata ==
    /\ metaPending
    /\ metaPending' = FALSE
    /\ scanStartedAt' = now
    /\ Loop(now, timers)
    /\ UNCHANGED <<metricsVars, regVars, conversationVars,
                   isOldUser, mounted, recognizedName, error, cancelled, now,
                   gum, realtimeRef, connecting, userRecognizedCalls,
                   endChatCalls, foundResponses,
                   lastTick, lastRtt, foundElapsed>>

\* The scan timer set by a finished tick fires and runs loop.
ScanTimerFire ==
    /\ \E t \in timers :
        /\ t.kind = "scan"
        /\ t.due <= now
        /\ Loop(scanStartedAt, timers \ {t})
    /\ lastRtt' = 0 - 1
    /\ UNCHANGED <<metricsVars, regVars, conversationVars,
                   isOldUser, mounted, recognizedName, error, cancelled,
                   scanStartedAt, now, gum, metaPending, realtimeRef,
                   connecting, userRecognizedCalls, endChatCalls,
                   foundResponses,
                   lastTick, foundElapsed>>

\* A delay that shrinks after a slow response.
NextDelayMsShrinking(rtt) ==
    IF rtt > SCAN_INTERVAL_MS THEN SCAN_INTERVAL_MS \div 2 ELSE SCAN_INTERVAL_MS

\* The delay before the next tick after a request that took rtt: the second
\* argument of setTimeout(loop, SCAN_INTERVAL_MS), whatever the request took.
NextDelayMs(rtt) == SCAN_INTERVAL_MS

\* The end of a tick without the setTimeout: the chain of ticks stops.
RescheduleDropped(rest, how, rtt) ==
    /\ inflight' = rest
    /\ lastTick' = how
    /\ lastRtt' = rtt
    /\ UNCHANGED <<metricsVars, regVars, conversationVars,
                   isOldUser, mounted, phase, recognizedName, scanProgress,
                   error, cancelled, scanStartedAt, now, gum, metaPending,
                   srcObject, trackLive, timers, scanTimerRef,
                   backHomeTimerRef, realtimeRef,
                   connecting, userRecognizedCalls, endChatCalls,
                   foundResponses, outcomes, foundElapsed>>

\* scanTimerRef.current = setTimeout(loop, SCAN_INTERVAL_MS), the last
\* statement of loop, reached by every tick that did not return earlier;
\* `rest` are the other ticks in flight, `how` is how this one ended.
Reschedule(rest, how, rtt) ==
    /\ scanTimerRef' = FreshTimerId
    /\ timers' = timers \cup {[id |-> FreshTimerId, kind |-> "scan",
                               due |-> now + NextDelayMs(rtt)]}
    /\ inflight' = rest
    /\ lastTick' = how
    /\ lastRtt' = rtt
    /\ UNCHANGED <<metricsVars, regVars, conversationVars,
                   isOldUser, mounted, phase, recognizedName, scanProgress,
                   error, cancelled, scanStartedAt, now, gum, metaPending,
                   srcObject, trackLive, backHomeTimerRef, realtimeRef,
                   connecting, userRecognizedCalls, endChatCalls,
                   foundResponses, outcomes, foundElapsed>>

\* captureVideoFrameBlob resolves: the frame is posted to /api/face/identify.
CaptureResolve ==
    \E t \in inflight :
        /\ t.stage = "capture"
        /\ inflight' = (inflight \ {t})
                         \cup {[t EXCEPT !.stage = "fetch", !.sent = now]}
        /\ UNCHANGED <<metricsVars, regVars, conversationVars,
                       isOldUser, mounted, phase, recognizedName,
                       scanProgress, error, cancelled, scanStartedAt, now,
                       gum, metaPending, srcObject, trackLive, timers,
                       scanTimerRef, backHomeTimerRef, realtimeRef,
                       connecting, userRecognizedCalls, endChatCalls,
                       foundResponses, outcomes,
                   lastTick, lastRtt, foundElapsed>>

\* captureVideoFrameBlob throws: caught, logged, next tick scheduled.
CaptureReject ==
    \E t \in inflight :
        /\ t.stage = "capture"
        /\ Reschedule(inflight \ {t}, "captureError", 0 - 1)

\* fetch resolves with response.ok and data.status = "found".
IdentifyFound ==
    \E t \in inflight, name \in ResponseNames :
        /\ t.stage = "fetch"
        /\ inflight' = inflight \ {t}
        /\ timers' = ClearTimeout(ClearTimeout(timers, scanTimerRef),
                                  backHomeTimerRef)
        /\ scanTimerRef' = 0
        /\ backHomeTimerRef' = 0
        /\ trackLive' = StopCameraTrack(VideoRef)
        /\ srcObject' = StopCameraSrc(VideoRef)
        /\ recognizedName' = SetState(recognizedName, MatchedName(name))
        /\ userRecognizedCalls' = Append(userRecognizedCalls, MatchedName(name))
        /\ phase' = SetState(phase, "FOUND_WAITING_GESTURE")
        /\ foundResponses' = foundResponses + 1
        /\ outcomes' = Append(outcomes, "recognized")
        /\ lastTick' = "found"
        /\ lastRtt' = 0 - 1
        /\ foundElapsed' = now - scanStartedAt
        /\ UNCHANGED <<metricsVars, regVars, conversationVars,
                       isOldUser, mounted, scanProgress, error, cancelled,
                       scanStartedAt, now, gum, metaPending, realtimeRef,
                       connecting, endChatCalls>>

\* fetch resolves with anything else: status unknown or error, a non-OK
\* response, or a body that does not parse (data = {}).
IdentifyNotFound ==
    \E t \in inflight :
        /\ t.stage = "fetch"
        /\ Reschedule(inflight \ {t}, "notFound", now - t.sent)

\* A rejected fetch that ends the session with an error instead of retrying.
IdentifyRejectFatal ==
    \E t \in inflight :
        /\ t.stage = "fetch"
        /\ inflight' = inflight \ {t}
        /\ lastTick' = "fetchError"
        /\ lastRtt' = now - t.sent
        /\ error' = SetState(error, "camera")
        /\ phase' = SetState(phase, "ERROR")
        /\ UNCHANGED <<metricsVars, regVars, conversationVars,
                       isOldUser, mounted, recognizedName, scanProgress,
                       cancelled, scanStartedAt, now, gum, metaPending,
                       srcObject, trackLive, timers, scanTimerRef,
                       backHomeTimerRef, realtimeRef, connecting,
                       userRecognizedCalls, endChatCalls, foundResponses,
                       outcomes, foundElapsed>>

\* fetch rejects (network failure): caught, logged, next tick scheduled.
IdentifyReject ==
    \E t \in inflight :
        /\ t.stage = "fetch"
        /\ Reschedule(inflight \ {t}, "fetchError", now - t.sent)

\* The cleanup returned by the scan effect, with `ref` telling whether
\* videoRef.current is still attached when it runs: the flag, both timers,
\* the camera.  Teardown of a session that is still scanning cancels it.
Cleanup(tm, ref) ==
    /\ cancelled' = (cancelled \/ isOldUser)
    /\ timers' = ClearTimeout(ClearTimeout(tm, scanTimerRef), backHomeTimerRef)
    /\ scanTimerRef' = 0
    /\ backHomeTimerRef' = 0
    /\ trackLive' = StopCameraTrack(ref)
    /\ srcObject' = StopCameraSrc(ref)
    /\ outcomes' = IF isOldUser /\ ~cancelled /\ phase = "SCANNING"
                     THEN Append(outcomes, "cancelled")
                     ELSE outcomes

\* The component is removed from the tree.  React detaches the refs of the
\* removed elements while it commits the removal and runs the effect
\* cleanups afterwards, so the cleanups see videoRef.current = null.
Unmounting(tm) ==
    /\ mounted' = FALSE
    /\ Cleanup(tm, FALSE)
    /\ realtimeRef' = FALSE

\* The parent removes the component while it is on screen.
Unmount ==
    /\ mounted
    /\ Unmounting(timers)
    /\ UNCHANGED <<metricsVars, regVars, conversationVars,
                   isOldUser, phase, recognizedName, scanProgress, error,
                   scanStartedAt, now, gum, metaPending, inflight, connecting,
                   userRecognizedCalls, endChatCalls, foundResponses,
                   lastTick, lastRtt, foundElapsed>>

\* The scan effect is cleaned up while the component stays mounted: its
\* dependency isOldUser changed.  The video element is still attached.
EffectCleanup ==
    /\ mounted
    /\ isOldUser
    /\ isOldUser' = FALSE
    /\ Cleanup(timers, VideoRef)
    /\ UNCHANGED <<metricsVars, regVars, conversationVars,
                   mounted, phase, recognizedName, scanProgress, error,
                   scanStartedAt, now, gum, metaPending, inflight,
                   realtimeRef, connecting, userRecognizedCalls,
                   endChatCalls, foundResponses,
                   lastTick, lastRtt, foundElapsed>>

\* The back-home timer fires: onEndChat, on which the page returns to the
\* landing screen and so removes the component.
BackHomeTimerFire ==
    /\ \E t \in timers :
        /\ t.kind = "backHome"
        /\ t.due <= now
        /\ Unmounting(timers \ {t})
    /\ endChatCalls' = endChatCalls + 1
    /\ UNCHANGED <<metricsVars, regVars, conversationVars,
                   isOldUser, phase, recognizedName, scanProgress, error,
                   scanStartedAt, now, gum, metaPending, inflight, connecting,
                   userRecognizedCalls, foundResponses,
                   lastTick, lastRtt, foundElapsed>>

\* handleEndChat (Back to Home, End Chat): stop timers and camera, drop the
\* realtime client, onEndChat; the page then removes the component.  The
\* button exists in phases that do not render the video, so stopCamera finds
\* videoRef.current = null in the handler as in the cleanup that follows.
HandleEndChat ==
    /\ mounted
    /\ phase \in {"NOT_RECOGNIZED", "ERROR", "READY"}
    /\ Unmounting(timers)
    /\ endChatCalls' = endChatCalls + 1
    /\ UNCHANGED <<metricsVars, regVars, conversationVars,
                   isOldUser, phase, recognizedName, scanProgress, error,
                   scanStartedAt, now, gum, metaPending, inflight, connecting,
                   userRecognizedCalls, foundResponses,
                   lastTick, lastRtt, foundElapsed>>

\* handleJoinChat (Join Chat, Retry Join Chat) up to the await of connect.
\* The <audio> element is rendered in every phase, so audioRef.current is set
\* whenever the button can be pressed.
HandleJoinChat ==
    /\ mounted
    /\ \/ phase = "FOUND_WAITING_GESTURE"
       \/ phase = "ERROR" /\ recognizedName # Null
    /\ error' = "none"
    /\ phase' = "CONNECTING_REALTIME"
    /\ realtimeRef' = TRUE
    /\ connecting' = TRUE
    /\ UNCHANGED <<metricsVars, regVars, conversationVars,
                   isOldUser, mounted, recognizedName, scanProgress,
                   cancelled, scanStartedAt, now, gum, metaPending, srcObject,
                   trackLive, timers, scanTimerRef, backHomeTimerRef,
                   inflight, userRecognizedCalls, endChatCalls,
                   foundResponses, outcomes,
                   lastTick, lastRtt, foundElapsed>>

\* realtime.connect resolves.
ConnectResolve ==
    /\ connecting
    /\ connecting' = FALSE
    /\ phase' = SetState(phase, "READY")
    /\ UNCHANGED <<metricsVars, regVars, conversationVars,
                   isOldUser, mounted, recognizedName, scanProgress, error,
                   cancelled, scanStartedAt, now, gum, metaPending, srcObject,
                   trackLive, timers, scanTimerRef, backHomeTimerRef,
                   inflight, realtimeRef, userRecognizedCalls, endChatCalls,
                   foundResponses, outcomes,
                   lastTick, lastRtt, foundElapsed>>

\* realtime.connect rejects: the client is dropped, phase ERROR.
ConnectReject ==
    /\ connecting
    /\ connecting' = FALSE
    /\ error' = SetState(error, "realtime")
    /\ realtimeRef' = FALSE
    /\ phase' = SetState(phase, "ERROR")
    /\ UNCHANGED <<metricsVars, regVars, conversationVars,
                   isOldUser, mounted, recognizedName, scanProgress,
                   cancelled, scanStartedAt, now, gum, metaPending, srcObject,
                   trackLive, timers, scanTimerRef, backHomeTimerRef,
                   inflight, userRecognizedCalls, endChatCalls,
                   foundResponses, outcomes,
                   lastTick, lastRtt, foundElapsed>>

Next ==
    \/ Advance
    \/ GetUserMediaResolve
    \/ GetUserMediaReject
    \/ LoadedMetadata
    \/ ScanTimerFire
    \/ CaptureResolve
    \/ CaptureReject
    \/ IdentifyFound
    \/ IdentifyNotFound
    \/ IdentifyReject
    \/ Unmount
    \/ EffectCleanup
    \/ BackHomeTimerFire
    \/ HandleEndChat
    \/ HandleJoinChat
    \/ ConnectResolve
    \/ ConnectReject

Spec == Init /\ [][Next]_vars

\* The component as the page (src/unnamed/part_003) uses it: isOldUser is
\* fixed while the component is on screen and only handleEndChat of the page,
\* reached through onEndChat, removes it.
NextInPage ==
    \/ Advance
    \/ GetUserMediaResolve
    \/ GetUserMediaReject
    \/ LoadedMetadata
    \/ ScanTimerFire
    \/ CaptureResolve
    \/ CaptureReject
    \/ IdentifyFound
    \/ IdentifyNotFound
    \/ IdentifyReject
    \/ BackHomeTimerFire
    \/ HandleEndChat
    \/ HandleJoinChat
    \/ ConnectResolve
    \/ ConnectReject

\* The event loop runs a timer callback once it is due, and time passes.
PageSpec ==
    /\ Init
    /\ [][NextInPage]_vars
    /\ WF_vars(Advance)
    /\ WF_vars(BackHomeTimerFire)

\* The event loop is idle until the next timer is due: the clock reaches the
\* earliest due time.  Unlike Advance it is not held back by the horizon, so
\* a timer set near the horizon still fires.
AdvanceToDue ==
    /\ timers # {}
    /\ \A t \in timers : t.due > now
    /\ \E t \in timers :
        /\ \A u \in timers : t.due <= u.due
        /\ now' = t.due
    /\ UNCHANGED <<metricsVars, regVars, conversationVars,
                   isOldUser, mounted, phase, recognizedName, scanProgress,
                   error, cancelled, scanStartedAt, gum, metaPending,
                   srcObject, trackLive, timers, scanTimerRef,
                   backHomeTimerRef, inflight, realtimeRef, connecting,
                   userRecognizedCalls, endChatCalls, foundResponses, outcomes,
                   lastTick, lastRtt, foundElapsed>>

\* The component as the page mounts it for an old user.
OldUserInit == Init /\ isOldUser

\* The component in the page, the clock not stopping at the horizon.
LiveNext ==
    \/ NextInPage
    \/ AdvanceToDue

\* The scan session of an old user under the fairness of the browser: a
\* pending capture and a pending identify request complete, a due scan timer
\* runs its callback, and time passes until the next timer is due.
ScanLiveSpec ==
    /\ OldUserInit
    /\ [][LiveNext]_vars
    /\ WF_vars(AdvanceToDue)
    /\ WF_vars(ScanTimerFire)
    /\ WF_vars(CaptureResolve \/ CaptureReject)
    /\ WF_vars(IdentifyFound \/ IdentifyNotFound \/ IdentifyReject)

(***************************************************************************)
(* RegistrationFlow, src/unnamed/part_006 lines 397-675, in the page       *)
(* (src/unnamed/part_003), which shows it until onComplete is called and   *)
(* then shows ChatInterface with isOldUser = false.                        *)
(***************************************************************************)

\* Bound of the registration model: register requests per flow.
MaxSaves == 2

\* A state setter of RegistrationFlow; it does nothing once unmounted.
SetRegState(old, new) == IF regMounted THEN new ELSE old

\* stopCamera of a flow that leaves the stream running.
RegStopCameraNot == regTrackLive

\* stopCamera of RegistrationFlow: the tracks of videoRef.current.srcObject
\* are stopped; the <video> is rendered in every state of a mounted flow.
RegStopCamera == IF regMounted /\ regSrcObject THEN FALSE ELSE regTrackLive

\* The page mounts ChatInterface for a new user called n.
MountChat(n) ==
    /\ mounted' = TRUE
    /\ phase' = "FOUND_WAITING_GESTURE"
    /\ recognizedName' = n
    /\ error' = "none"
    /\ realtimeRef' = FALSE
    /\ connecting' = FALSE

\* onComplete(n), that is handleRegistrationComplete of the page:
\* setUserName(n) and setAppState("CHAT").  From REGISTRATION and from LANDING
\* this mounts ChatInterface (and removes the flow); with the chat already on
\* screen only its userName prop changes.
OnComplete(n) ==
    /\ onCompleteCalls' =
           Append(onCompleteCalls, [name |-> n, mounted |-> regMounted])
    /\ regMounted' = FALSE
    /\ IF mounted
         THEN UNCHANGED <<mounted, phase, recognizedName, error, realtimeRef,
                          connecting>>
         ELSE MountChat(n)
    /\ UNCHANGED <<isOldUser, scanProgress, cancelled, scanStartedAt, now,
                   gum, metaPending, srcObject, trackLive, timers,
                   scanTimerRef, backHomeTimerRef, inflight,
                   userRecognizedCalls, endChatCalls, foundResponses,
                   outcomes, lastTick, lastRtt, foundElapsed>>

\* The camera effect: getUserMedia resolves.
RegGetUserMediaResolve ==
    /\ regGum = "pending"
    /\ regGum' = "done"
    /\ IF ~regMounted
         THEN \* stream.getTracks().forEach(track => track.stop())
              UNCHANGED <<regSrcObject, regTrackLive, regMetaPending>>
         ELSE /\ regSrcObject' = TRUE
              /\ regTrackLive' = TRUE
              /\ regMetaPending' = TRUE
    /\ UNCHANGED <<metricsVars, scanVars, conversationVars,
                   regMounted, regState, regName, capturedBlob, regError,
                   notice, captureInflight, saveInflight, saveCount,
                   completeTimers, onCompleteCalls>>

\* The camera effect: getUserMedia rejects.
RegGetUserMediaReject ==
    /\ regGum = "pending"
    /\ regGum' = "failed"
    /\ regError' = SetRegState(regError, "camera")
    /\ UNCHANGED <<metricsVars, scanVars, conversationVars,
                   regMounted, regState, regName, capturedBlob, notice,
                   regMetaPending, regSrcObject, regTrackLive,
                   captureInflight, saveInflight, saveCount, completeTimers,
                   onCompleteCalls>>

\* videoRef.current.onloadedmetadata: play, READY.
RegLoadedMetadata ==
    /\ regMetaPending
    /\ regMetaPending' = FALSE
    /\ regState' = SetRegState(regState, "READY")
    /\ UNCHANGED <<metricsVars, scanVars, conversationVars,
                   regMounted, regName, capturedBlob, regError, notice,
                   regGum, regSrcObject, regTrackLive, captureInflight,
                   saveInflight, saveCount, completeTimers, onCompleteCalls>>

\* handleCapture (Capture Face, shown in READY) up to its await.
HandleCapture ==
    /\ regMounted
    /\ regState = "READY"
    /\ regState' = "CAPTURING"
    /\ regError' = "none"
    /\ notice' = FALSE
    /\ captureInflight' = TRUE
    /\ UNCHANGED <<metricsVars, scanVars, conversationVars,
                   regMounted, regName, capturedBlob, regGum, regMetaPending,
                   regSrcObject, regTrackLive, saveInflight, saveCount,
                   completeTimers, onCompleteCalls>>

\* captureVideoFrameBlob resolves: the blob is kept, CAPTURED.
RegCaptureResolve ==
    /\ captureInflight
    /\ captureInflight' = FALSE
    /\ capturedBlob' = SetRegState(capturedBlob, TRUE)
    /\ regState' = SetRegState(regState, "CAPTURED")
    /\ UNCHANGED <<metricsVars, scanVars, conversationVars,
                   regMounted, regName, regError, notice, regGum,
                   regMetaPending, regSrcObject, regTrackLive, saveInflight,
                   saveCount, completeTimers, onCompleteCalls>>

\* captureVideoFrameBlob throws: the error is shown, READY.
RegCaptureReject ==
    /\ captureInflight
    /\ captureInflight' = FALSE
    /\ regError' = SetRegState(regError, "capture")
    /\ regState' = SetRegState(regState, "READY")
    /\ UNCHANGED <<metricsVars, scanVars, conversationVars,
                   regMounted, regName, capturedBlob, notice, regGum,
                   regMetaPending, regSrcObject, regTrackLive, saveInflight,
                   saveCount, completeTimers, onCompleteCalls>>

\* onChange of the name input, shown in CAPTURED: a name is typed or the
\* input is cleared.
TypeName ==
    /\ regMounted
    /\ regState = "CAPTURED"
    /\ regName' = IF regName = "" THEN "typed" ELSE ""
    /\ UNCHANGED <<metricsVars, scanVars, conversationVars,
                   regMounted, regState, capturedBlob, regError, notice,
                   regGum, regMetaPending, regSrcObject, regTrackLive,
                   captureInflight, saveInflight, saveCount, completeTimers,
                   onCompleteCalls>>

\* handleSave up to its await fetch.  Save & Continue is shown in CAPTURED
\* and disabled for a blank name, and Enter calls handleSave only for a name
\* that is not blank.
HandleSave ==
    /\ regMounted
    /\ regState = "CAPTURED"
    /\ regName # ""
    /\ saveCount < MaxSaves
    /\ IF ~capturedBlob
         THEN /\ regError' = "name"
              /\ UNCHANGED <<regState, notice, saveInflight, saveCount>>
         ELSE /\ regState' = "SAVING"
              /\ regError' = "none"
              /\ notice' = FALSE
              /\ saveInflight' = TRUE
              /\ saveCount' = saveCount + 1
    /\ UNCHANGED <<metricsVars, scanVars, conversationVars,
                   regMounted, regName, capturedBlob, regGum, regMetaPending,
                   regSrcObject, regTrackLive, captureInflight,
                   completeTimers, onCompleteCalls>>

\* The register request fails: a response that is not ok, or a fetch that
\* throws.  The error is shown, CAPTURED.
SaveFail ==
    /\ saveInflight
    /\ saveInflight' = FALSE
    /\ regError' = SetRegState(regError, "save")
    /\ regState' = SetRegState(regState, "CAPTURED")
    /\ UNCHANGED <<metricsVars, scanVars, conversationVars,
                   regMounted, regName, capturedBlob, notice, regGum,
                   regMetaPending, regSrcObject, regTrackLive,
                   captureInflight, saveCount, completeTimers,
                   onCompleteCalls>>

\* The register request is answered ok with registration_mode "existing":
\* the notice, CAPTURED, and the completion 1200 ms later.
SaveExisting ==
    /\ saveInflight
    /\ saveInflight' = FALSE
    /\ notice' = SetRegState(notice, TRUE)
    /\ regState' = SetRegState(regState, "CAPTURED")
    /\ \E n \in Names : completeTimers' = Append(completeTimers, n)
    /\ UNCHANGED <<metricsVars, scanVars, conversationVars,
                   regMounted, regName, capturedBlob, regError, regGum,
                   regMetaPending, regSrcObject, regTrackLive,
                   captureInflight, saveCount, onCompleteCalls>>

\* The register request is answered ok with another registration_mode:
\* stopCamera and onComplete at once.
SaveNew ==
    /\ saveInflight
    /\ saveInflight' = FALSE
    /\ regTrackLive' = RegStopCamera
    /\ \E n \in Names : OnComplete(n)
    /\ UNCHANGED <<metricsVars, conversationVars,
                   regState, regName, capturedBlob, regError, notice, regGum,
                   regMetaPending, regSrcObject, captureInflight, saveCount,
                   completeTimers>>

\* The timer of an "existing" answer fires: stopCamera and onComplete.
CompleteTimerFire ==
    /\ completeTimers # <<>>
    /\ completeTimers' = Tail(completeTimers)
    /\ regTrackLive' = RegStopCamera
    /\ OnComplete(Head(completeTimers))
    /\ UNCHANGED <<metricsVars, conversationVars,
                   regState, regName, capturedBlob, regError, notice, regGum,
                   regMetaPending, regSrcObject, captureInflight,
                   saveInflight, saveCount>>

\* handleRetake (Retake, shown in CAPTURED).
HandleRetake ==
    /\ regMounted
    /\ regState = "CAPTURED"
    /\ capturedBlob' = FALSE
    /\ regName' = ""
    /\ notice' = FALSE
    /\ regState' = "READY"
    /\ UNCHANGED <<metricsVars, scanVars, conversationVars,
                   regMounted, regError, regGum, regMetaPending,
                   regSrcObject, regTrackLive, captureInflight, saveInflight,
                   saveCount, completeTimers, onCompleteCalls>>

\* handleNewUser of the page: RegistrationFlow is mounted, its camera effect
\* has called getUserMedia, and ChatInterface is not on screen.
RegInit ==
    /\ isOldUser = FALSE
    /\ mounted = FALSE
    /\ phase = "FOUND_WAITING_GESTURE"
    /\ recognizedName = Null
    /\ scanProgress = 0
    /\ error = "none"
    /\ cancelled = FALSE
    /\ scanStartedAt = 0
    /\ now = Epoch
    /\ gum = "none"
    /\ metaPending = FALSE
    /\ srcObject = FALSE
    /\ trackLive = FALSE
    /\ timers = {}
    /\ scanTimerRef = 0
    /\ backHomeTimerRef = 0
    /\ inflight = {}
    /\ realtimeRef = FALSE
    /\ connecting = FALSE
    /\ userRecognizedCalls = <<>>
    /\ endChatCalls = 0
    /\ foundResponses = 0
    /\ outcomes = <<>>
    /\ lastTick = "none"
    /\ lastRtt = 0 - 1
    /\ foundElapsed = 0 - 1
    /\ events = <<>>
    /\ singleton = FALSE
    /\ dbNow = 0
    /\ call = NoCall
    /\ result = NoResult
    /\ logged = 0
    /\ lastId = 0
    /\ regMounted = TRUE
    /\ regState = "LOADING"
    /\ regName = ""
    /\ capturedBlob = FALSE
    /\ regError = "none"
    /\ notice = FALSE
    /\ regGum = "pending"
    /\ regMetaPending = FALSE
    /\ regSrcObject = FALSE
    /\ regTrackLive = FALSE
    /\ captureInflight = FALSE
    /\ saveInflight = FALSE
    /\ saveCount = 0
    /\ completeTimers = <<>>
    /\ onCompleteCalls = <<>>
    /\ conversationStore = <<>>
    /\ chatPending = {}
    /\ openaiUp = TRUE
    /\ chatPosts = 0

\* The flow and the chat that follows it.
RegistrationNext ==
    \/ RegGetUserMediaResolve
    \/ RegGetUserMediaReject
    \/ RegLoadedMetadata
    \/ HandleCapture
    \/ RegCaptureResolve
    \/ RegCaptureReject
    \/ TypeName
    \/ HandleSave
    \/ SaveFail
    \/ SaveExisting
    \/ SaveNew
    \/ CompleteTimerFire
    \/ HandleRetake
    \/ HandleJoinChat
    \/ ConnectResolve
    \/ ConnectReject
    \/ HandleEndChat

RegistrationSpec == RegInit /\ [][RegistrationNext]_vars

\* The page after one of its two buttons was pressed.
AppInit == OldUserInit \/ RegInit

\* Both paths to the chat: the scan of an old user and the registration of a
\* new one.
AppNext ==
    \/ NextInPage
    \/ RegistrationNext

AppSpec == AppInit /\ [][AppNext]_vars

(***************************************************************************)
(* The metrics store, src/unnamed/part_005.                                *)
(***************************************************************************)

\* pruneOldRows keeps the rows of the last 30 days.
RETENTION_DAYS == 30

\* Bounds of the server model: rows in the table, the store's clock.
MaxEvents == 2
MaxDay == 31
DaySteps == {RETENTION_DAYS, RETENTION_DAYS + 1}

TimingFields == {"serverProcessingMs", "gatewayUpstreamMs", "clientRttMs",
                 "networkLatencyMsEst"}
TextFields == {"sessionId", "status", "reason"}

\* normalizeMs without the test of the sign.
NormalizeMsAnySign(value) ==
    IF ~TypeofNumber(value) \/ ~NumberIsFinite(value) THEN JsNull ELSE value

\* normalizeMs
NormalizeMs(value) ==
    IF ~TypeofNumber(value) \/ ~NumberIsFinite(value)
      THEN JsNull
      ELSE IF value.n >= 0 THEN value ELSE JsNull

\* normalizeText
NormalizeText(value) ==
    IF value.t # "string"
      THEN JsNull
      ELSE IF Trim(value.s) # <<>> THEN Str(Trim(value.s)) ELSE JsNull

\* A rowid policy that fills the smallest id free in the table.
NextRowIdFirstFree(rows) ==
    CHOOSE n \in 1..(Len(rows) + 1) :
        /\ \A i \in 1..Len(rows) : rows[i].id # n
        /\ \A m \in 1..(n - 1) : \E i \in 1..Len(rows) : rows[i].id = m

\* The rowid SQLite gives a row of a table declared INTEGER PRIMARY KEY: one
\* more than the largest rowid in the table, 1 in an empty table.
NextRowId(rows) == IF rows = <<>> THEN 1 ELSE rows[Len(rows)].id + 1

\* The row insertEvent writes for `input` at time t.
Row(rows, input, t) ==
    [id |-> NextRowId(rows),
     createdAt |-> t,
     sessionId |-> NormalizeText(input.sessionId),
     source |-> input.source,
     status |-> NormalizeText(Nullish(input.status, JsNull)),
     reason |-> NormalizeText(Nullish(input.reason, JsNull)),
     serverProcessingMs |-> NormalizeMs(input.serverProcessingMs),
     gatewayUpstreamMs |-> NormalizeMs(input.gatewayUpstreamMs),
     clientRttMs |-> NormalizeMs(input.clientRttMs),
     networkLatencyMsEst |-> NormalizeMs(input.networkLatencyMsEst)]

\* A prune that also deletes the rows exactly 30 days old.
PruneOldRowsInclusive(rows, t) ==
    SelectSeq(rows, LAMBDA r : ~(r.createdAt <= t - RETENTION_DAYS))

\* pruneOldRows: DELETE ... WHERE created_at < datetime('now', '-30 days')
PruneOldRows(rows, t) ==
    SelectSeq(rows, LAMBDA r : ~(r.createdAt < t - RETENTION_DAYS))

\* The faults of the storage: opening the file (constructor), the INSERT, the
\* pruning DELETE.
Faults == {"none", "open", "insert", "prune"}

\* insertEvent: the INSERT, then pruneOldRows; a failing statement throws.
InsertEvent(rows, input, t, fault) ==
    IF fault = "insert"
      THEN [events |-> rows, threw |-> TRUE]
      ELSE IF fault = "prune"
        THEN [events |-> Append(rows, Row(rows, input, t)), threw |-> TRUE]
        ELSE [events |-> PruneOldRows(Append(rows, Row(rows, input, t)), t),
              threw |-> FALSE]

\* recordFaceMetricEvent: getDb().insertEvent(input).  getDb constructs the
\* singleton on first use; a constructor that throws leaves it null.
RecordFaceMetricEvent(rows, opened, input, t, fault) ==
    IF ~opened /\ fault = "open"
      THEN [events |-> rows, singleton |-> FALSE, threw |-> TRUE]
      ELSE [events |-> InsertEvent(rows, input, t, fault).events,
            singleton |-> TRUE,
            threw |-> InsertEvent(rows, input, t, fault).threw]

\* Inputs of the calls: timings and texts of every kind the normalisers tell
\* apart.
TimingInputs == {Undefined, Number(0 - 5000), Number(0), Number(12345), NaN,
                 Infinity}
TextInputs == {Undefined, Str(<<>>), Str(<<" ", " ">>),
               Str(<<" ", "s2", " ">>), Number(7)}

\* An input with every field valid.
ValidInput ==
    [source |-> "server",
     sessionId |-> Str(<<"s1">>),
     status |-> Str(<<"found">>),
     reason |-> Str(<<"match">>),
     serverProcessingMs |-> Number(40000),
     gatewayUpstreamMs |-> Number(60000),
     clientRttMs |-> Number(90000),
     networkLatencyMsEst |-> Number(50000)]

\* The valid input, with one timing negative, with every timing replaced,
\* with a blank session id, or with every text replaced.
RecordInputs ==
    {ValidInput, [ValidInput EXCEPT !.sessionId = Str(<<" ">>)]}
      \cup {[ValidInput EXCEPT ![f] = Number(0 - 5000)] : f \in TimingFields}
      \cup {[ValidInput EXCEPT !.serverProcessingMs = v,
                               !.gatewayUpstreamMs = v,
                               !.clientRttMs = v,
                               !.networkLatencyMsEst = v] : v \in TimingInputs}
      \cup {[ValidInput EXCEPT !.sessionId = v, !.status = v, !.reason = v] :
                v \in TextInputs}

\* The largest id given so far, after a call that took the table from
\* `before` to `after`: the id of the row the call added, if it added one.
AssignedId(before, after, last) ==
    LET added == {i \in 1..Len(after) :
                      \A j \in 1..Len(before) : before[j] # after[i]}
    IN IF added = {} THEN last ELSE after[CHOOSE i \in added : TRUE].id

\* A fault of opening the file can happen only while it is not open.
FaultPossible(fault) == fault = "open" => ~singleton

\* Some caller on the server calls recordFaceMetricEvent(input).
CallRecordFaceMetricEvent ==
    /\ Len(events) < MaxEvents
    /\ \E input \in RecordInputs, fault \in Faults :
        /\ FaultPossible(fault)
        /\ LET r == RecordFaceMetricEvent(events, singleton, input, dbNow,
                                          fault)
           IN /\ events' = r.events
              /\ singleton' = r.singleton
              /\ result' = [kind |-> IF r.threw THEN "throw" ELSE "return"]
              /\ lastId' = AssignedId(events, r.events, lastId)
        /\ call' = [op |-> "record", arg |-> input, fault |-> fault]
    /\ logged' = 0
    /\ UNCHANGED <<dbNow, scanVars, regVars, conversationVars>>

\* Time passes on the server.
DbTick ==
    /\ \E d \in DaySteps :
        /\ dbNow + d <= MaxDay
        /\ dbNow' = dbNow + d
    /\ UNCHANGED <<events, singleton, call, result, logged, lastId, scanVars,
                   regVars, conversationVars>>

(***************************************************************************)
(* The metrics write route, src/app/api/metrics/face/route.ts, POST.       *)
(***************************************************************************)

Response(status, body) == [kind |-> "response", status |-> status, body |-> body]

\* asOptionalNumber without the test `value < 0`.
AsOptionalNumberAnySign(value) ==
    IF ~TypeofNumber(value) \/ ~NumberIsFinite(value) THEN JsNull ELSE value

\* asOptionalNumber of the metrics route
AsOptionalNumber(value) ==
    IF ~TypeofNumber(value) \/ ~NumberIsFinite(value) \/ value.n < 0
      THEN JsNull
      ELSE value

\* asOptionalText
AsOptionalText(value) ==
    IF value.t # "string"
      THEN JsNull
      ELSE IF Trim(value.s) # <<>> THEN Str(Trim(value.s)) ELSE JsNull

MetricStatuses == {<<"found">>, <<"unknown">>, <<"error">>}

\* status of the routes: one of the three known texts, or null.
KnownStatus(value) ==
    IF value.t = "string" /\ value.s \in MetricStatuses THEN value ELSE JsNull

Max(a, b) == IF a > b THEN a ELSE b

\* networkLatencyMsEst as a bare difference, without Math.max(0, ...).
NetworkLatencyMsEstUnfloored(clientRttMs, serverProcessingMs) ==
    IF serverProcessingMs = JsNull
      THEN JsNull
      ELSE Number(clientRttMs.n - serverProcessingMs.n)

\* networkLatencyMsEst as the route derives it from the two validated timings.
NetworkLatencyMsEst(clientRttMs, serverProcessingMs) ==
    IF serverProcessingMs = JsNull
      THEN JsNull
      ELSE Number(Max(0, clientRttMs.n - serverProcessingMs.n))

\* The event the route records for a payload whose client_rtt_ms is valid.
MetricsPostInput(payload, header) ==
    [source |-> "client",
     sessionId |-> Nullish(AsOptionalText(payload.session_id), header),
     status |-> KnownStatus(AsOptionalText(payload.status)),
     reason |-> AsOptionalText(payload.reason),
     serverProcessingMs |-> AsOptionalNumber(payload.server_processing_ms),
     gatewayUpstreamMs |-> AsOptionalNumber(payload.gateway_upstream_ms),
     clientRttMs |-> AsOptionalNumber(payload.client_rtt_ms),
     networkLatencyMsEst |->
         NetworkLatencyMsEst(AsOptionalNumber(payload.client_rtt_ms),
                             AsOptionalNumber(payload.server_processing_ms))]

\* POST: the body that does not parse to an object throws into the catch;
\* an invalid client_rtt_ms is answered 400; otherwise the event is recorded,
\* and a throw of recordFaceMetricEvent lands in the catch as well.
MetricsPost(rows, opened, req, t, fault) ==
    IF ~req.parses
      THEN [events |-> rows, singleton |-> opened,
            result |-> Response(500, [error |-> "body"])]
      ELSE IF AsOptionalNumber(req.payload.client_rtt_ms) = JsNull
        THEN [events |-> rows, singleton |-> opened,
              result |-> Response(400, [error |-> "client_rtt_ms"])]
        ELSE LET r == RecordFaceMetricEvent(rows, opened,
                          MetricsPostInput(req.payload, req.header), t, fault)
             IN [events |-> r.events, singleton |-> r.singleton,
                 result |-> IF r.threw
                              THEN Response(500, [error |-> fault])
                              ELSE Response(200, [ok |-> TRUE])]

\* A payload with every field valid.
ValidPayload ==
    [session_id |-> Str(<<"s1">>),
     client_rtt_ms |-> Number(90000),
     status |-> Str(<<"found">>),
     reason |-> Str(<<"match">>),
     server_processing_ms |-> Number(40000),
     gateway_upstream_ms |-> Number(60000)]

\* The valid payload with client_rtt_ms replaced, or with the other two
\* timings replaced.
TimingPayloads ==
    {[ValidPayload EXCEPT !.client_rtt_ms = v] : v \in TimingInputs}
      \cup {[ValidPayload EXCEPT !.server_processing_ms = v,
                                 !.gateway_upstream_ms = v] :
                v \in TimingInputs}

\* The valid payload with every text replaced.
TextPayloads ==
    {[ValidPayload EXCEPT !.session_id = v, !.status = v, !.reason = v] :
         v \in TextInputs \cup {Str(<<"weird">>)}}

\* Requests: a body that parses, with the x-session-id header or without,
\* and a body that does not parse.
MetricsRequests ==
    {[parses |-> TRUE, payload |-> p, header |-> JsNull] :
         p \in TimingPayloads \cup {ValidPayload}}
      \cup {[parses |-> TRUE, payload |-> p, header |-> h] :
                p \in TextPayloads, h \in {JsNull, Str(<<"h1">>)}}
      \cup {[parses |-> FALSE, payload |-> ValidPayload, header |-> JsNull]}

\* A browser posts to /api/metrics/face.
CallMetricsPost ==
    /\ Len(events) < MaxEvents
    /\ \E req \in MetricsRequests, fault \in Faults :
        /\ FaultPossible(fault)
        /\ LET r == MetricsPost(events, singleton, req, dbNow, fault)
           IN /\ events' = r.events
              /\ singleton' = r.singleton
              /\ result' = r.result
              /\ lastId' = AssignedId(events, r.events, lastId)
        /\ call' = [op |-> "metricsPost", arg |-> req, fault |-> fault]
    /\ logged' = 0
    /\ UNCHANGED <<dbNow, scanVars, regVars, conversationVars>>

(***************************************************************************)
(* The identify gateway, src/scripts/verify-mirai-policy.ts lines 294-405  *)
(* (the route /api/face/identify).                                         *)
(***************************************************************************)

\* roundMetric: Math.round(value * 100) / 100
RoundMetric(n) == ((n + 5) \div 10) * 10

\* asOptionalNumber of the gateway: a finite number of either sign, or null.
IdentifyAsOptionalNumber(value) ==
    IF ~TypeofNumber(value) \/ ~NumberIsFinite(value) THEN JsNull ELSE value

\* recordFaceMetricEvent called bare: its throw reaches the caller.
UnsafeRecordFaceMetricEvent(rows, opened, input, t, fault) ==
    [events |-> RecordFaceMetricEvent(rows, opened, input, t, fault).events,
     singleton |->
         RecordFaceMetricEvent(rows, opened, input, t, fault).singleton,
     threw |-> RecordFaceMetricEvent(rows, opened, input, t, fault).threw,
     logged |-> 0]

\* safeRecordFaceMetricEvent: a throw of recordFaceMetricEvent is caught and
\* logged with console.error.
SafeRecordFaceMetricEvent(rows, opened, input, t, fault) ==
    [events |-> RecordFaceMetricEvent(rows, opened, input, t, fault).events,
     singleton |->
         RecordFaceMetricEvent(rows, opened, input, t, fault).singleton,
     threw |-> FALSE,
     logged |->
         IF RecordFaceMetricEvent(rows, opened, input, t, fault).threw
           THEN 1 ELSE 0]

\* A field of the parsed body when it is a string, else null.
StringOrNull(value) == IF value.t = "string" THEN value ELSE JsNull

\* status as the gateway records it: no trim, one of the known texts or null.
GatewayStatus(value) ==
    IF StringOrNull(value) # JsNull /\ value.s \in MetricStatuses
      THEN value
      ELSE JsNull

\* The event recorded for an upstream body that parsed to an object.
GatewayInput(req) ==
    [source |-> "server",
     sessionId |-> req.header,
     status |-> GatewayStatus(req.body.status),
     reason |-> StringOrNull(req.body.reason),
     serverProcessingMs |-> IdentifyAsOptionalNumber(req.body.latency_ms),
     gatewayUpstreamMs |-> Number(req.elapsed),
     clientRttMs |-> Undefined,
     networkLatencyMsEst |-> Undefined]

\* The event recorded by the outer catch.
ProxyErrorInput(req) ==
    [source |-> "server",
     sessionId |-> req.header,
     status |-> Str(<<"error">>),
     reason |-> Str(<<"proxy_error">>),
     serverProcessingMs |-> Undefined,
     gatewayUpstreamMs |-> Number(req.elapsed),
     clientRttMs |-> Undefined,
     networkLatencyMsEst |-> Undefined]

\* The JSON the gateway answers for a parsed body: the body's own fields,
\* gateway_upstream_ms and, when latency_ms is a finite number,
\* server_processing_ms.
GatewayPayload(req) ==
    [parsed |-> req.body,
     gateway_upstream_ms |-> Number(RoundMetric(req.elapsed)),
     server_processing_ms |->
         IF IdentifyAsOptionalNumber(req.body.latency_ms) = JsNull
           THEN Undefined
           ELSE Number(RoundMetric(req.body.latency_ms.n))]

\* POST of the gateway.  `req.upstream` tells how far the request gets:
\*   "nofile"  - the form has no file: 400, nothing recorded;
\*   "throws"  - getFaceApiBase, formData, fetch or text() throws: the outer
\*               catch records a proxy_error event and answers 500;
\*   "garbage" - the upstream body does not parse to an object: JSON.parse or
\*               the first property read throws into the inner catch, which
\*               passes the body through, nothing recorded;
\*   "object"  - the body parses: the event is recorded, the JSON answered.
\* A throw inside the inner try lands in the inner catch; a throw inside the
\* outer catch leaves POST.
IdentifyPost(rows, opened, req, t, fault) ==
    LET same == [events |-> rows, singleton |-> opened, logged |-> 0]
        passThrough == Response(req.status, [raw |-> req.upstream])
    IN CASE req.upstream = "nofile" ->
              same @@
              [result |-> Response(400, [error |-> "file is required"])]
         [] req.upstream = "throws" ->
              LET r == SafeRecordFaceMetricEvent(rows, opened,
                           ProxyErrorInput(req), t, fault)
              IN [events |-> r.events, singleton |-> r.singleton,
                  logged |-> r.logged,
                  result |-> IF r.threw
                               THEN [kind |-> "throw"]
                               ELSE Response(500, [error |-> "proxy"])]
         [] req.upstream = "garbage" ->
              same @@ [result |-> passThrough]
         [] req.upstream = "object" ->
              LET r == SafeRecordFaceMetricEvent(rows, opened,
                           GatewayInput(req), t, fault)
              IN [events |-> r.events, singleton |-> r.singleton,
                  logged |-> r.logged,
                  result |-> IF r.threw
                               THEN passThrough
                               ELSE Response(req.status, GatewayPayload(req))]

\* Bodies the face service answers with: latency_ms, status and reason of
\* every kind the gateway tells apart.
UpstreamBodies ==
    {[latency_ms |-> l, status |-> Str(<<"found">>), reason |-> Undefined] :
         l \in {Undefined, Number(0 - 5000), Number(12345), Str(<<"12">>)}}
      \cup {[latency_ms |-> Number(12345), status |-> st,
             reason |-> Str(<<"no_face">>)] :
                st \in {Undefined, Str(<<"unknown">>), Str(<<"weird">>)}}

NoBody == [latency_ms |-> Undefined, status |-> Undefined, reason |-> Undefined]

\* Requests to the gateway, with the x-session-id header or without.
IdentifyRequests ==
    {[upstream |-> "object", status |-> 200, body |-> b, elapsed |-> 61000,
      header |-> Str(<<"s1">>)] : b \in UpstreamBodies}
      \cup {[upstream |-> u, status |-> 500, body |-> NoBody, elapsed |-> 0,
             header |-> h] :
                u \in {"nofile", "throws", "garbage", "object"},
                h \in {JsNull, Str(<<"s1">>)}}

\* A browser posts a frame to /api/face/identify.
CallIdentifyPost ==
    /\ Len(events) < MaxEvents
    /\ \E req \in IdentifyRequests, fault \in Faults :
        /\ FaultPossible(fault)
        /\ LET r == IdentifyPost(events, singleton, req, dbNow, fault)
           IN /\ events' = r.events
              /\ singleton' = r.singleton
              /\ result' = r.result
              /\ logged' = r.logged
              /\ lastId' = AssignedId(events, r.events, lastId)
        /\ call' = [op |-> "identify", arg |-> req, fault |-> fault]
    /\ UNCHANGED <<dbNow, scanVars, regVars, conversationVars>>

\* The server starts with an empty table; the browser component is left in
\* its initial state.
ServerInit == Init /\ isOldUser

\* The store under direct calls of recordFaceMetricEvent.
StoreNext ==
    \/ DbTick
    \/ CallRecordFaceMetricEvent

StoreSpec == ServerInit /\ [][StoreNext]_vars

\* The store behind the metrics write route.
MetricsRouteNext ==
    \/ DbTick
    \/ CallMetricsPost

MetricsRouteSpec == ServerInit /\ [][MetricsRouteNext]_vars

\* The two ways a client-measured event reaches the store: the function and
\* the route in front of it.
IngestNext ==
    \/ DbTick
    \/ CallRecordFaceMetricEvent
    \/ CallMetricsPost

IngestSpec == ServerInit /\ [][IngestNext]_vars

\* The store behind the identify gateway.
GatewayNext ==
    \/ DbTick
    \/ CallIdentifyPost

GatewaySpec == ServerInit /\ [][GatewayNext]_vars

(***************************************************************************)
(* Reading the metrics: resolveFaceMetricsWindow, src/unnamed/part_005.    *)
(* Instants (Date) are counted in milliseconds.  created_at is kept to the *)
(* day, and a day of the model lasts DAY_MS milliseconds, which keeps the  *)
(* differences of two created_at within TLC's integers.                    *)
(***************************************************************************)

DAY_MS == 1000

\* The instants of the texts that new Date(text) can parse; every other text
\* gives an invalid Date.
DateValue ==
    [text \in {"d0", "d30", "d30.5", "d31"} |->
        CASE text = "d0" -> 0
          [] text = "d30" -> 30 * DAY_MS
          [] text = "d30.5" -> 30 * DAY_MS + 500
          [] text = "d31" -> 31 * DAY_MS]

\* parseDateInput: the instant of the text, or null
ParseDateInput(value) ==
    IF Len(value) = 1 /\ value[1] \in DOMAIN DateValue
      THEN Number(DateValue[value[1]])
      ELSE JsNull

\* toSqliteUtc: the instant in the format of created_at, which drops what is
\* below its resolution.
ToSqliteUtc(date) == date \div DAY_MS

\* parseSqliteUtc: the instant of a created_at
ParseSqliteUtc(value) == value * DAY_MS

\* setHours(0, 0, 0, 0): midnight of the day of `date`
StartOfToday(date) == (date \div DAY_MS) * DAY_MS

\* input?.from?.trim() ?? ""
TrimmedOrEmpty(value) == IF value.t = "string" THEN Trim(value.s) ELSE <<>>

\* The test for a lone bound left out.
OnlyOneBoundIgnored(fromRaw, toRaw) == FALSE

\* (fromRaw && !toRaw) || (!fromRaw && toRaw)
OnlyOneBound(fromRaw, toRaw) == (fromRaw # <<>>) # (toRaw # <<>>)

\* fromDate.getTime() > toDate.getTime(), which lets from = to through
NotEarlierStrict(fromDate, toDate) == fromDate.n > toDate.n

\* fromDate.getTime() >= toDate.getTime()
NotEarlier(fromDate, toDate) == fromDate.n >= toDate.n

BothTogetherError ==
    "Both 'from' and 'to' must be provided together for a custom range."
InvalidDateError ==
    "Invalid date format. Use ISO datetime for 'from' and 'to'."
FromEarlierError == "'from' must be earlier than 'to'."

ResolvedMetricsWindow(mode, from, to) ==
    [mode |-> mode, from |-> from, to |-> to,
     sqlFrom |-> ToSqliteUtc(from), sqlTo |-> ToSqliteUtc(to)]

\* resolveFaceMetricsWindow, called at the instant t
ResolveFaceMetricsWindow(input, t) ==
    LET fromRaw == TrimmedOrEmpty(input.from)
        toRaw == TrimmedOrEmpty(input.to)
        fromDate == ParseDateInput(fromRaw)
        toDate == ParseDateInput(toRaw)
    IN IF OnlyOneBound(fromRaw, toRaw)
         THEN [ok |-> FALSE, error |-> BothTogetherError]
         ELSE IF fromRaw = <<>> /\ toRaw = <<>>
           THEN [ok |-> TRUE,
                 value |-> ResolvedMetricsWindow("today", StartOfToday(t), t)]
           ELSE IF fromDate = JsNull \/ toDate = JsNull
             THEN [ok |-> FALSE, error |-> InvalidDateError]
             ELSE IF NotEarlier(fromDate, toDate)
               THEN [ok |-> FALSE, error |-> FromEarlierError]
               ELSE [ok |-> TRUE,
                     value |-> ResolvedMetricsWindow("custom", fromDate.n,
                                                     toDate.n)]

\* Values of the query parameters from and to.
FromInputs == {JsNull, Str(<<" ">>), Str(<<"d0">>), Str(<<" ", "d30">>),
               Str(<<"d30.5">>), Str(<<"bad">>)}
ToInputs == {Undefined, Str(<<>>), Str(<<"d0">>), Str(<<"d30">>),
             Str(<<"d31", " ">>), Str(<<"d30", " ", "x">>)}
WindowInputs == [from : FromInputs, to : ToInputs]

\* Milliseconds of the JavaScript clock past the created_at of the moment.
ClockFractions == {0, 500}

\* Some caller resolves a window.
CallResolveFaceMetricsWindow ==
    /\ \E input \in WindowInputs, ms \in ClockFractions :
        /\ call' = [op |-> "resolve", arg |-> input, fault |-> "none",
                    at |-> dbNow * DAY_MS + ms]
        /\ result' = ResolveFaceMetricsWindow(input, dbNow * DAY_MS + ms)
    /\ logged' = 0
    /\ UNCHANGED <<events, singleton, dbNow, lastId, scanVars,
                   regVars, conversationVars>>

\* Window resolution alone, as time passes.
WindowNext ==
    \/ DbTick
    \/ CallResolveFaceMetricsWindow

WindowSpec == ServerInit /\ [][WindowNext]_vars

(***************************************************************************)
(* percentile, src/unnamed/part_005.  Samples are sequences of integers.   *)
(***************************************************************************)

\* The sample left in the order given.
SortNot(values) == values

\* Insert v into an ascending sequence, after the elements equal to it.
RECURSIVE InsertAscending(_, _)
InsertAscending(sorted, v) ==
    IF sorted = <<>> \/ v < Head(sorted)
      THEN <<v>> \o sorted
      ELSE <<Head(sorted)>> \o InsertAscending(Tail(sorted), v)

\* [...values].sort((a, b) => a - b)
RECURSIVE SortAscending(_)
SortAscending(values) ==
    IF values = <<>>
      THEN <<>>
      ELSE InsertAscending(SortAscending(SubSeq(values, 1, Len(values) - 1)),
                           values[Len(values)])

\* Math.ceil((p / 100) * n), for p and n not negative
CeilPercent(p, n) == (p * n + 99) \div 100

\* percentile: null for an empty sample, else sorted[idx]; an index of the
\* model is one more than the index of the code.
Percentile(values, p) ==
    IF Len(values) = 0
      THEN JsNull
      ELSE Number(SortAscending(values)[
               Max(0, Min(Len(values) - 1,
                          CeilPercent(p, Len(values)) - 1)) + 1])

\* Bounds of the samples: their length, and the ranks asked for.
MaxSample == 4
SampleValues == {100, 200, 300, 400}
Ranks == {0, 50, 90, 100, 150}

RECURSIVE Samples(_)
Samples(n) ==
    IF n = 0
      THEN {<<>>}
      ELSE Samples(n - 1)
             \cup {Append(q, v) : q \in {x \in Samples(n - 1) : Len(x) = n - 1},
                                  v \in SampleValues}

\* A caller holds a sample and a rank.
PercentileInit ==
    /\ InitExceptCall
    /\ isOldUser
    /\ call \in {[op |-> "sample", arg |-> values, fault |-> "none", p |-> p] :
                     values \in Samples(MaxSample), p \in Ranks}

\* The caller computes the percentile.
CallPercentile ==
    /\ call.op = "sample"
    /\ call' = [call EXCEPT !.op = "percentile"]
    /\ result' = Percentile(call.arg, call.p)
    /\ logged' = 0
    /\ UNCHANGED <<events, singleton, dbNow, lastId, scanVars,
                   regVars, conversationVars>>

PercentileNext ==
    \/ CallPercentile

PercentileSpec == PercentileInit /\ [][PercentileNext]_vars

(***************************************************************************)
(* The aggregation: getSessionGroupedMetrics and getFaceMetricsSummary,    *)
(* src/unnamed/part_005.  Timings are Number(n) with n in thousandths of a *)
(* millisecond; counts are integers.                                       *)
(***************************************************************************)

\* roundMetric(sum / count): Math.round of the mean in hundredths.
RoundedMean(sum, count) ==
    Number(((sum + 5 * count) \div (10 * count)) * 10)

\* roundMetric of part_005: null unless a finite number.
RoundMetricOrNull(value) ==
    IF ~TypeofNumber(value) \/ ~NumberIsFinite(value)
      THEN JsNull
      ELSE Number(RoundMetric(value.n))

\* The sum of a sequence of integers.
RECURSIVE Sum(_)
Sum(q) == IF q = <<>> THEN 0 ELSE Head(q) + Sum(Tail(q))

\* The values of a column that are not NULL, in rowid order.
ColumnValues(rows, column) ==
    LET kept == SelectSeq(rows, LAMBDA r : r[column] # JsNull)
    IN [i \in 1..Len(kept) |-> kept[i][column].n]

\* The query without its test of session_id.
HasSessionIdOrNot(r) == TRUE

\* session_id IS NOT NULL AND TRIM(session_id) <> ''
HasSessionId(r) == r.sessionId # JsNull /\ Trim(r.sessionId.s) # <<>>

\* created_at >= ? AND created_at <= ?, bound to sqlFrom and sqlTo
InWindow(r, window) ==
    r.createdAt >= window.sqlFrom /\ r.createdAt <= window.sqlTo

\* The session ids the callers use, in the order of ORDER BY session_id ASC.
SessionIdsAscending == << <<"h1">>, <<"s1">>, <<"s2">>, <<"weird">> >>

\* The rows of every session with the newest first, as ORDER BY session_id
\* ASC, id DESC would give them.
RECURSIVE OrderBySessionIdNewestFirst(_, _)
OrderBySessionIdNewestFirst(rows, sids) ==
    LET newestFirst(q) == [i \in 1..Len(q) |-> q[Len(q) + 1 - i]]
    IN IF sids = <<>>
         THEN <<>>
         ELSE newestFirst(SelectSeq(rows,
                              LAMBDA r : r.sessionId = Str(Head(sids))))
                \o OrderBySessionIdNewestFirst(rows, Tail(sids))

\* The rows of `rows` with session id sid, for each sid in ascending order;
\* rows of any other session come last.
RECURSIVE OrderBySessionId(_, _)
OrderBySessionId(rows, sids) ==
    IF sids = <<>>
      THEN SelectSeq(rows, LAMBDA r :
               \A i \in 1..Len(SessionIdsAscending) :
                   r.sessionId # Str(SessionIdsAscending[i]))
      ELSE SelectSeq(rows, LAMBDA r : r.sessionId = Str(Head(sids)))
             \o OrderBySessionId(rows, Tail(sids))

\* The first query of getSessionGroupedMetrics.
ServerRows(rows, window) ==
    OrderBySessionId(
        SelectSeq(rows, LAMBDA r : /\ r.source = "server"
                                   /\ HasSessionId(r)
                                   /\ InWindow(r, window)),
        SessionIdsAscending)

\* The rows of the second query that belong to session sid.
ClientRows(rows, window, sid) ==
    SelectSeq(rows, LAMBDA r : /\ r.source = "client"
                               /\ HasSessionId(r)
                               /\ InWindow(r, window)
                               /\ r.sessionId = sid)

\* AVG(column) of SQL: NULL when no row carries the column; then normalizeMs
\* and roundMetric.
RoundedAvg(rows, column) ==
    IF ColumnValues(rows, column) = <<>>
      THEN JsNull
      ELSE RoundedMean(Sum(ColumnValues(rows, column)),
                       Len(ColumnValues(rows, column)))

\* The entry the loop creates for the first row of a session.
NewSession(row) ==
    [session_id |-> row.sessionId,
     started_at |-> row.createdAt,
     ended_at |-> row.createdAt,
     attempt_count |-> 0,
     success |-> FALSE,
     attempts_until_success |-> JsNull,
     first_success_at |-> JsNull,
     first_success_time_ms |-> JsNull,
     final_status |-> JsNull,
     final_reason |-> JsNull,
     server_sum |-> 0,
     server_count |-> 0,
     gateway_sum |-> 0,
     gateway_count |-> 0]

\* The test of the loop with !session.success left out.
AnySuccess(session, row) == row.status = Str(<<"found">>)

\* !session.success && row.status === "found"
FirstSuccess(session, row) ==
    ~session.success /\ row.status = Str(<<"found">>)

\* One turn of the loop over serverRows, on the entry of the row's session.
CountRow(session, row) ==
    LET counted ==
            [session EXCEPT
                !.attempt_count = @ + 1,
                !.ended_at = row.createdAt,
                !.final_status = row.status,
                !.final_reason = row.reason,
                !.server_sum = IF row.serverProcessingMs # JsNull
                                 THEN @ + row.serverProcessingMs.n ELSE @,
                !.server_count = IF row.serverProcessingMs # JsNull
                                   THEN @ + 1 ELSE @,
                !.gateway_sum = IF row.gatewayUpstreamMs # JsNull
                                  THEN @ + row.gatewayUpstreamMs.n ELSE @,
                !.gateway_count = IF row.gatewayUpstreamMs # JsNull
                                    THEN @ + 1 ELSE @]
    IN IF FirstSuccess(counted, row)
         THEN [counted EXCEPT
                  !.success = TRUE,
                  !.attempts_until_success = Number(counted.attempt_count),
                  !.first_success_at = Number(row.createdAt),
                  !.first_success_time_ms =
                      Number(Max(0, ParseSqliteUtc(row.createdAt)
                                      - ParseSqliteUtc(counted.started_at))
                               * 1000)]
         ELSE counted

\* The place of the session of `row` in the map, 0 when it has none.
SessionAt(sessionMap, row) ==
    IF \E i \in 1..Len(sessionMap) : sessionMap[i].session_id = row.sessionId
      THEN CHOOSE i \in 1..Len(sessionMap) :
               sessionMap[i].session_id = row.sessionId
      ELSE 0

\* The loop over serverRows; the map keeps its entries in insertion order.
RECURSIVE GroupLoop(_, _)
GroupLoop(serverRows, sessionMap) ==
    IF serverRows = <<>>
      THEN sessionMap
      ELSE LET row == Head(serverRows)
               at == SessionAt(sessionMap, row)
           IN GroupLoop(Tail(serverRows),
                  IF at = 0
                    THEN Append(sessionMap, CountRow(NewSession(row), row))
                    ELSE [sessionMap EXCEPT ![at] = CountRow(@, row)])

\* The entry of a session as getSessionGroupedMetrics returns it.
SessionSummary(rows, window, session) ==
    [session_id |-> session.session_id,
     started_at |-> session.started_at,
     ended_at |-> session.ended_at,
     attempt_count |-> session.attempt_count,
     success |-> session.success,
     attempts_until_success |-> session.attempts_until_success,
     first_success_at |-> session.first_success_at,
     first_success_time_ms |-> RoundMetricOrNull(session.first_success_time_ms),
     avg_server_processing_ms |->
         IF session.server_count > 0
           THEN RoundedMean(session.server_sum, session.server_count)
           ELSE JsNull,
     avg_gateway_upstream_ms |->
         IF session.gateway_count > 0
           THEN RoundedMean(session.gateway_sum, session.gateway_count)
           ELSE JsNull,
     avg_client_rtt_ms |->
         RoundedAvg(ClientRows(rows, window, session.session_id),
                    "clientRttMs"),
     avg_network_latency_ms_est |->
         RoundedAvg(ClientRows(rows, window, session.session_id),
                    "networkLatencyMsEst"),
     final_status |-> session.final_status,
     final_reason |-> session.final_reason]

\* Insert a session into a sequence sorted by started_at descending, after
\* the sessions that started at the same time.
RECURSIVE InsertByStart(_, _)
InsertByStart(sorted, session) ==
    IF sorted = <<>> \/ session.started_at > Head(sorted).started_at
      THEN <<session>> \o sorted
      ELSE <<Head(sorted)>> \o InsertByStart(Tail(sorted), session)

\* sessions.sort((a, b) => b.started_at.localeCompare(a.started_at))
RECURSIVE SortByStartDescending(_)
SortByStartDescending(sessions) ==
    IF sessions = <<>>
      THEN <<>>
      ELSE InsertByStart(
               SortByStartDescending(SubSeq(sessions, 1, Len(sessions) - 1)),
               sessions[Len(sessions)])

\* The sessions of the window, newest first.
Sessions(rows, window) ==
    LET sessionMap == GroupLoop(ServerRows(rows, window), <<>>)
    IN SortByStartDescending(
           [i \in 1..Len(sessionMap) |->
               SessionSummary(rows, window, sessionMap[i])])

\* The values of a field of the sessions that are numbers.
NumbersOf(sessions, field) ==
    LET kept == SelectSeq(sessions, LAMBDA x : TypeofNumber(x[field]))
    IN [i \in 1..Len(kept) |-> kept[i][field].n]

\* The mean of a sample through roundMetric, null for an empty sample.
RoundedMeanOrNull(values, scale) ==
    IF values = <<>>
      THEN JsNull
      ELSE RoundedMean(scale * Sum(values), Len(values))

RATE_SCALE == 10000

\* The rate without the test for no sessions: 0 / 0 is NaN, written -1.
SuccessRateUnguarded(successCount, totalSessions) ==
    IF totalSessions > 0
      THEN (2 * RATE_SCALE * successCount + totalSessions)
             \div (2 * totalSessions)
      ELSE 0 - 1

\* Math.round(successRate * 10_000) / 10_000, in ten-thousandths.
SuccessRate(successCount, totalSessions) ==
    IF totalSessions > 0
      THEN (2 * RATE_SCALE * successCount + totalSessions)
             \div (2 * totalSessions)
      ELSE 0

\* session_summary of getSessionGroupedMetrics
SessionSummaryOfAll(sessions) ==
    LET successfulSessions == SelectSeq(sessions, LAMBDA x : x.success)
    IN [total_sessions |-> Len(sessions),
        successful_sessions |-> Len(successfulSessions),
        failed_sessions |-> Len(sessions) - Len(successfulSessions),
        success_rate |-> SuccessRate(Len(successfulSessions), Len(sessions)),
        avg_attempts_until_success |->
            RoundedMeanOrNull(
                NumbersOf(successfulSessions, "attempts_until_success"), 1000),
        p50_first_success_time_ms |->
            RoundMetricOrNull(Percentile(
                NumbersOf(successfulSessions, "first_success_time_ms"), 50)),
        p90_first_success_time_ms |->
            RoundMetricOrNull(Percentile(
                NumbersOf(successfulSessions, "first_success_time_ms"), 90)),
        avg_attempt_latency_per_session_ms |->
            RoundedMeanOrNull(NumbersOf(sessions, "avg_server_processing_ms"),
                              1)]

\* getSessionGroupedMetrics
GetSessionGroupedMetrics(rows, window) ==
    LET sessions == Sessions(rows, window)
    IN [window |-> [from |-> window.from, to |-> window.to,
                    mode |-> window.mode],
        session_summary |-> SessionSummaryOfAll(sessions),
        sessions |-> sessions]

\* getRequestCount
GetRequestCount(rows) == Len(SelectSeq(rows, LAMBDA r : r.source = "server"))

\* The largest and the smallest element of a sample that is not empty.
MaxOf(values) == CHOOSE v \in {values[i] : i \in 1..Len(values)} :
                     \A i \in 1..Len(values) : values[i] <= v
MinOf(values) == CHOOSE v \in {values[i] : i \in 1..Len(values)} :
                     \A i \in 1..Len(values) : values[i] >= v

\* getMetricStats, through toMetricStatSummary and the roundMetric calls of
\* getFaceMetricsSummary.
GetMetricStats(rows, column) ==
    LET values == ColumnValues(rows, column)
    IN IF values = <<>>
         THEN [avg |-> JsNull, min |-> JsNull, max |-> JsNull, last |-> JsNull]
         ELSE [avg |-> RoundedMean(Sum(values), Len(values)),
               min |-> Number(RoundMetric(MinOf(values))),
               max |-> Number(RoundMetric(MaxOf(values))),
               last |-> Number(RoundMetric(values[Len(values)]))]

\* COALESCE(column, 'unknown')
Coalesce(value) == IF value = JsNull THEN Str(<<"unknown">>) ELSE value

\* The groups of GROUP BY status, reason among the server rows: the rowids
\* of the first row of each group.
GroupHeads(rows) ==
    {i \in 1..Len(rows) :
        /\ rows[i].source = "server"
        /\ \A j \in 1..(i - 1) :
               ~(/\ rows[j].source = "server"
                 /\ rows[j].status = rows[i].status
                 /\ rows[j].reason = rows[i].reason)}

\* The entry of the group whose first row is rows[i].
GroupEntry(rows, i) ==
    [status |-> Coalesce(rows[i].status),
     reason |-> Coalesce(rows[i].reason),
     count |-> Cardinality({j \in 1..Len(rows) :
                   /\ rows[j].source = "server"
                   /\ rows[j].status = rows[i].status
                   /\ rows[j].reason = rows[i].reason})]

\* Insert an entry into a sequence sorted by count descending, after the
\* entries of the same count.
RECURSIVE InsertByCount(_, _)
InsertByCount(sorted, entry) ==
    IF sorted = <<>> \/ entry.count > Head(sorted).count
      THEN <<entry>> \o sorted
      ELSE <<Head(sorted)>> \o InsertByCount(Tail(sorted), entry)

\* The entries of the groups whose first row is among the first n rows.
RECURSIVE CountsUpTo(_, _)
CountsUpTo(rows, n) ==
    IF n = 0
      THEN <<>>
      ELSE IF n \in GroupHeads(rows)
        THEN InsertByCount(CountsUpTo(rows, n - 1), GroupEntry(rows, n))
        ELSE CountsUpTo(rows, n - 1)

\* getStatusReasonCounts: ORDER BY count DESC; groups of the same count are
\* kept in the order of their first rows.
GetStatusReasonCounts(rows) == CountsUpTo(rows, Len(rows))

\* min, max and last of a column as the summary nests them.
MinMaxLast(stats) ==
    [min |-> stats.min, max |-> stats.max, last |-> stats.last]

\* getFaceMetricsSummary(window)
GetFaceMetricsSummary(rows, window) ==
    LET serverStats == GetMetricStats(rows, "serverProcessingMs")
        gatewayStats == GetMetricStats(rows, "gatewayUpstreamMs")
        clientStats == GetMetricStats(rows, "clientRttMs")
        networkStats == GetMetricStats(rows, "networkLatencyMsEst")
    IN [request_count |-> GetRequestCount(rows),
        avg_server_processing_ms |-> serverStats.avg,
        avg_client_rtt_ms |-> clientStats.avg,
        avg_gateway_upstream_ms |-> gatewayStats.avg,
        avg_network_latency_ms_est |-> networkStats.avg,
        server_processing_ms |-> MinMaxLast(serverStats),
        client_rtt_ms |-> MinMaxLast(clientStats),
        gateway_upstream_ms |-> MinMaxLast(gatewayStats),
        network_latency_ms_est |-> MinMaxLast(networkStats),
        status_reason_counts |-> GetStatusReasonCounts(rows),
        grouped |-> GetSessionGroupedMetrics(rows, window)]

(***************************************************************************)
(* The metrics read route, src/app/api/metrics/face/route.ts, GET.         *)
(***************************************************************************)

\* A read that prunes as an insert does.
MetricsGetPruning(rows, opened, input, t, fault) ==
    LET resolvedWindow == ResolveFaceMetricsWindow(input, t)
        kept == PruneOldRows(rows, ToSqliteUtc(t))
    IN IF ~resolvedWindow.ok
         THEN [singleton |-> opened, events |-> rows,
               result |-> Response(400, [error |-> resolvedWindow.error])]
         ELSE [singleton |-> TRUE, events |-> kept,
               result |-> Response(200,
                   GetFaceMetricsSummary(kept, resolvedWindow.value))]

\* GET at the instant t: a window that does not resolve is answered 400; a
\* constructor of the store that throws is answered 500; the queries of the
\* summary are SELECT statements, the table is as before.
MetricsGet(rows, opened, input, t, fault) ==
    LET resolvedWindow == ResolveFaceMetricsWindow(input, t)
    IN IF ~resolvedWindow.ok
         THEN [singleton |-> opened, events |-> rows,
               result |-> Response(400, [error |-> resolvedWindow.error])]
         ELSE IF ~opened /\ fault = "open"
           THEN [singleton |-> FALSE, events |-> rows,
                 result |-> Response(500, [error |-> fault])]
           ELSE [singleton |-> TRUE, events |-> rows,
                 result |-> Response(200,
                     GetFaceMetricsSummary(rows, resolvedWindow.value))]

\* The query strings of the readers.
GetInputs ==
    {[from |-> JsNull, to |-> JsNull],
     [from |-> Str(<<"d0">>), to |-> Str(<<"d30">>)],
     [from |-> Str(<<"d0">>), to |-> Str(<<"d31">>)],
     [from |-> Str(<<"d30">>), to |-> Str(<<"d31">>)],
     [from |-> Str(<<"d30.5">>), to |-> Str(<<"d31">>)],
     [from |-> Str(<<"d30">>), to |-> Str(<<"d30">>)],
     [from |-> Str(<<"d0">>), to |-> JsNull]}

\* Milliseconds of the JavaScript clock past the created_at, at a read.
ReadFraction == 500

\* A reader requests GET /api/metrics/face.
CallMetricsGet ==
    /\ \E input \in GetInputs, fault \in {"none", "open"} :
        /\ FaultPossible(fault)
        /\ LET r == MetricsGet(events, singleton, input,
                               dbNow * DAY_MS + ReadFraction, fault)
           IN /\ singleton' = r.singleton
              /\ events' = r.events
              /\ result' = r.result
        /\ call' = [op |-> "metricsGet", arg |-> input, fault |-> fault,
                    at |-> dbNow * DAY_MS + ReadFraction]
    /\ logged' = 0
    /\ UNCHANGED <<dbNow, lastId, scanVars,
                   regVars, conversationVars>>

\* Bound of the aggregation model: rows in the table.
MaxAttempts == 3

\* An event of the gateway for an attempt of session sid.
Attempt(sid, status, serverProcessingMs) ==
    [source |-> "server",
     sessionId |-> sid,
     status |-> Str(<<status>>),
     reason |-> Undefined,
     serverProcessingMs |-> serverProcessingMs,
     gatewayUpstreamMs |-> Number(80004),
     clientRttMs |-> Undefined,
     networkLatencyMsEst |-> Undefined]

\* The events the model aggregates: an attempt of session s1 that fails and
\* one that succeeds, an attempt of session s2 without a processing time, an
\* attempt without a session id, and a client's measurement for s1.
SessionInputs ==
    {Attempt(Str(<<"s1">>), "unknown", Number(50000)),
     Attempt(Str(<<"s1">>), "found", Number(70000)),
     Attempt(Str(<<"s2">>), "unknown", Undefined),
     Attempt(Str(<<" ">>), "found", Number(10000)),
     [source |-> "client",
      sessionId |-> Str(<<"s1">>),
      status |-> Str(<<"found">>),
      reason |-> Undefined,
      serverProcessingMs |-> Number(70000),
      gatewayUpstreamMs |-> Number(80004),
      clientRttMs |-> Number(90000),
      networkLatencyMsEst |-> Number(20000)]}

\* The gateway or the metrics route records an event, the storage working.
CallRecordSessionEvent ==
    /\ Len(events) < MaxAttempts
    /\ \E input \in SessionInputs :
        /\ LET r == RecordFaceMetricEvent(events, singleton, input, dbNow,
                                          "none")
           IN /\ events' = r.events
              /\ singleton' = r.singleton
              /\ result' = [kind |-> IF r.threw THEN "throw" ELSE "return"]
              /\ lastId' = AssignedId(events, r.events, lastId)
        /\ call' = [op |-> "record", arg |-> input, fault |-> "none"]
    /\ logged' = 0
    /\ UNCHANGED <<dbNow, scanVars, regVars, conversationVars>>

\* The store with its writers and its readers.
AggregateNext ==
    \/ DbTick
    \/ CallRecordSessionEvent
    \/ CallMetricsGet

AggregateSpec == ServerInit /\ [][AggregateNext]_vars

\* The attempts of three sessions: s1 succeeds, s2 and h1 do not.
FunnelInputs ==
    {Attempt(Str(<<"s1">>), "found", Number(70000)),
     Attempt(Str(<<"s2">>), "unknown", Undefined),
     Attempt(Str(<<"h1">>), "unknown", Number(50004))}

\* The gateway records an attempt of one of the three sessions.
CallRecordFunnelEvent ==
    /\ Len(events) < MaxAttempts
    /\ \E input \in FunnelInputs :
        /\ LET r == RecordFaceMetricEvent(events, singleton, input, dbNow,
                                          "none")
           IN /\ events' = r.events
              /\ singleton' = r.singleton
              /\ result' = [kind |-> IF r.threw THEN "throw" ELSE "return"]
              /\ lastId' = AssignedId(events, r.events, lastId)
        /\ call' = [op |-> "record", arg |-> input, fault |-> "none"]
    /\ logged' = 0
    /\ UNCHANGED <<dbNow, scanVars, regVars, conversationVars>>

\* Three sessions and the readers of the summary.
FunnelNext ==
    \/ CallRecordFunnelEvent
    \/ CallMetricsGet

FunnelSpec == ServerInit /\ [][FunnelNext]_vars

\* The gateway with the readers of the summary.
CountsNext ==
    \/ CallIdentifyPost
    \/ CallMetricsGet

CountsSpec == ServerInit /\ [][CountsNext]_vars

(***************************************************************************)
(* The chat route, src/app/api/chat/route.ts.                              *)
(***************************************************************************)

MAX_SESSIONS == 150
MAX_MESSAGES_PER_SESSION == 20

\* Bounds of the chat model: requests with a session id of their own,
\* requests without a session id, and requests suspended at once.
MaxSessionIds == 152
MaxDefaultPosts == 12
MaxInFlight == 2

\* The session of a body without sessionId ("default-session"); the other
\* session ids are 1, 2, ...
DefaultSession == 0

\* The keys of the Map.
StoreKeys == {conversationStore[i].sid : i \in 1..Len(conversationStore)}

\* conversationStore.has(sessionId) being true, the index of its entry.
IndexOfSession(sid) ==
    CHOOSE i \in 1..Len(conversationStore) : conversationStore[i].sid = sid

\* getConversationHistory: a session not in the Map is added at its end with
\* the system prompt.
GetConversationHistory(sid) ==
    IF sid \in StoreKeys
      THEN conversationStore
      ELSE Append(conversationStore, [sid |-> sid, hist |-> <<"system">>])

\* The sliding window: splice(1, length - MAX_MESSAGES_PER_SESSION - 1) of a
\* history longer than MAX_MESSAGES_PER_SESSION + 1.
SlidingWindow(hist) ==
    IF Len(hist) > MAX_MESSAGES_PER_SESSION + 1
      THEN <<hist[1]>> \o SubSeq(hist, Len(hist) - MAX_MESSAGES_PER_SESSION + 1,
                                 Len(hist))
      ELSE hist

\* cleanupOldSessions: one key, the first of the Map, is deleted from a Map
\* of more than MAX_SESSIONS keys.
CleanupOldSessions(store) ==
    IF Len(store) > MAX_SESSIONS THEN Tail(store) ELSE store

\* The message is pushed on the history array the request holds.
PushMessage(store, sid, role) ==
    [i \in 1..Len(store) |->
        IF store[i].sid = sid
          THEN [store[i] EXCEPT !.hist = Append(@, role)]
          ELSE store[i]]

\* POST with a valid text, up to await fetch: the history is fetched or
\* created, the user message pushed, the window applied.  (OPENAI_API_KEY is
\* set.)
ChatPostBegin(sid) ==
    /\ Cardinality(chatPending) < MaxInFlight
    /\ LET got == GetConversationHistory(sid)
           i == CHOOSE k \in 1..Len(got) : got[k].sid = sid
           slot == CHOOSE k \in 1..MaxInFlight :
                       \A p \in chatPending : p.slot # k
       IN /\ conversationStore' =
                 [got EXCEPT ![i].hist = SlidingWindow(Append(@, "user"))]
          /\ chatPending' = chatPending \cup
                 {[slot |-> slot, sid |-> sid, orphan |-> FALSE]}
    /\ chatPosts' = chatPosts + 1
    /\ UNCHANGED <<metricsVars, scanVars, regVars, openaiUp>>

\* POST after await fetch, response.ok: the reply is pushed on the history
\* the request holds (an array no longer in the Map when its session was
\* deleted meanwhile), then cleanupOldSessions.
ChatPostOk(p) ==
    /\ p \in chatPending
    /\ openaiUp
    /\ LET pushed == IF p.orphan THEN conversationStore
                     ELSE PushMessage(conversationStore, p.sid, "assistant")
           cleaned == CleanupOldSessions(pushed)
           deleted == IF Len(cleaned) < Len(pushed) THEN {pushed[1].sid}
                      ELSE {}
       IN /\ conversationStore' = cleaned
          /\ chatPending' =
                 {[q EXCEPT !.orphan = @ \/ q.sid \in deleted] :
                      q \in chatPending \ {p}}
    /\ UNCHANGED <<metricsVars, scanVars, regVars, openaiUp, chatPosts>>

\* POST after await fetch, a response that is not ok or a fetch that throws:
\* an error response, the Map as it is.
ChatPostFail(p) ==
    /\ p \in chatPending
    /\ ~openaiUp
    /\ chatPending' = chatPending \ {p}
    /\ UNCHANGED <<metricsVars, scanVars, regVars, conversationStore,
                   openaiUp, chatPosts>>

\* The completions API stops answering with success.
OpenaiOutage ==
    /\ openaiUp
    /\ openaiUp' = FALSE
    /\ UNCHANGED <<metricsVars, scanVars, regVars, conversationStore,
                   chatPending, chatPosts>>

\* The session id no request has used yet.
FreshSession ==
    IF conversationStore = <<>> THEN 1
    ELSE conversationStore[Len(conversationStore)].sid + 1

\* Clients that each talk in a session of their own, one request after the
\* other.
ChatSessionsNext ==
    \/ /\ chatPosts < MaxSessionIds
       /\ chatPending = {}
       /\ ChatPostBegin(FreshSession)
    \/ \E p \in chatPending : ChatPostOk(p)
    \/ \E p \in chatPending : ChatPostFail(p)
    \/ OpenaiOutage

ChatSessionsSpec == ServerInit /\ [][ChatSessionsNext]_vars

\* Clients that send no sessionId and so share "default-session".
ChatHistoryNext ==
    \/ /\ chatPosts < MaxDefaultPosts
       /\ ChatPostBegin(DefaultSession)
    \/ \E p \in chatPending : ChatPostOk(p)
    \/ \E p \in chatPending : ChatPostFail(p)
    \/ OpenaiOutage

ChatHistorySpec == ServerInit /\ [][ChatHistoryNext]_vars

(***************************************************************************)
(* Properties of the scan session.                                         *)
(***************************************************************************)

ScanTimers == {t \in timers : t.kind = "scan"}
Elapsed == now - scanStartedAt

\* A tick that was awaiting fetch finishes in this step.
IdentifyCompletes == \E t \in inflight : t.stage = "fetch" /\ t \notin inflight'

\* C1: ticks are strictly sequential.  The loop is one chain: in every state
\* at most one of {the pending start of the loop, a tick in flight, a pending
\* scan timer} exists, so at most one tick is in flight and the next one is
\* scheduled only by the completion of the previous one.
C1_TicksSequential ==
    Cardinality(inflight) + Cardinality(ScanTimers)
        + (IF metaPending THEN 1 ELSE 0) <= 1

\* A later tick's identify request is in flight: scanTimerRef still holds the
\* handle of the timer that started it.
C1_Witness ==
    /\ scanTimerRef # 0
    /\ \E t \in inflight : t.stage = "fetch"

\* C2 (as claimed): when the identify request of a torn-down session
\* resolves, its result is discarded: the recognized name, the calls of
\* onUserRecognized and the phase stay as they are.
C2_StaleResultDiscarded ==
    [][(cancelled /\ IdentifyCompletes)
         => UNCHANGED <<recognizedName, userRecognizedCalls, phase>>]_vars

\* C3 (as claimed): once the session is torn down the camera is released and
\* no scan or back-home timer is pending, in every later state.
C3_TornDownStaysQuiet ==
    cancelled => (timers = {} /\ ~trackLive)

\* C4 (as claimed): no identify request is ever started at
\* elapsed >= SCAN_DURATION_MS.
C4_NoRequestPastDeadline ==
    [][(\E t \in inflight' : t.stage = "fetch" /\ t \notin inflight)
         => Elapsed < SCAN_DURATION_MS]_vars

\* C4 (amended): the deadline is tested when a tick begins.  Every tick that
\* captures a frame or has a request in flight began at
\* elapsed < SCAN_DURATION_MS, and a session that timed out is in
\* NOT_RECOGNIZED with no tick in flight and the camera attached nowhere.
C4_TickBeginsBeforeDeadline ==
    /\ \A t \in inflight : t.began < SCAN_DURATION_MS
    /\ (Len(outcomes) > 0 /\ outcomes[Len(outcomes)] = "timedOut")
         => (phase = "NOT_RECOGNIZED" /\ inflight = {} /\ ~srcObject)

\* A tick that began before the deadline has its identify request in flight
\* at or after the deadline.
C4_Witness ==
    \E t \in inflight :
        /\ t.stage = "fetch"
        /\ t.began < SCAN_DURATION_MS
        /\ Elapsed >= SCAN_DURATION_MS
        /\ ~cancelled

\* C5 (as claimed): a session that is not torn down never becomes recognized
\* at elapsed >= SCAN_DURATION_MS.
C5_NotRecognizedPastDeadline ==
    (phase = "FOUND_WAITING_GESTURE" /\ ~cancelled)
        => foundElapsed < SCAN_DURATION_MS

\* C5 (amended): the session becomes recognized only by the identify request
\* of a tick that began at elapsed < SCAN_DURATION_MS; the response may arrive
\* after the deadline.
C5_RecognizedByTickBegunBeforeDeadline ==
    [][(userRecognizedCalls' # userRecognizedCalls)
         => \E t \in inflight :
                /\ t \notin inflight'
                /\ t.stage = "fetch"
                /\ t.began < SCAN_DURATION_MS]_vars

\* Recognized, not torn down, by a response that arrived past the deadline.
C5_Witness ==
    /\ phase = "FOUND_WAITING_GESTURE"
    /\ ~cancelled
    /\ foundElapsed >= SCAN_DURATION_MS

\* C6 (as claimed): at most one of recognized, timed out and cancelled ever
\* occurs for a session, and onUserRecognized names at most one identity.
C6_AtMostOneOutcome ==
    /\ Len(outcomes) <= 1
    /\ Len(userRecognizedCalls) <= 1

\* C7 (as claimed): in a terminal or torn-down state no camera track is live.
C7_CameraStoppedOnExit ==
    (~mounted \/ cancelled \/ phase # "SCANNING") => ~trackLive

\* C8 (as claimed): a single found response does not confirm; a session is
\* recognized only after an identity was found at least twice.
C8_ConfirmationNeedsRepeatedMatch ==
    userRecognizedCalls # <<>> => foundResponses >= 2

\* The window of recent identify results kept by the scan effect.  Its
\* closure holds cancelled and scanStartedAt only: no result is retained.
RecentMatches == <<>>

\* C9 (as claimed): the window holds an entry for every completed identify
\* call, so it is not empty once a call has completed.
C9_WindowRecordsCompletedCalls ==
    lastTick \in {"found", "notFound"} => Len(RecentMatches) >= 1

\* C10: a tick that ends by a failure (or any result other than found)
\* leaves the phase as it is, SCANNING unless the session was torn down, and
\* schedules the next tick SCAN_INTERVAL_MS later.
C10_FailedTickRetries ==
    [][(inflight' \subseteq inflight /\ inflight' # inflight
            /\ userRecognizedCalls' = userRecognizedCalls)
         => /\ phase' = phase
            /\ error' = error
            /\ ~cancelled => phase' = "SCANNING"
            /\ \E t \in timers' \ timers :
                   t.kind = "scan" /\ t.due = now + SCAN_INTERVAL_MS]_vars

\* After a failed capture or a rejected request the session is still
\* scanning, with the next tick pending.
C10_Witness ==
    /\ lastTick \in {"captureError", "fetchError"}
    /\ phase = "SCANNING"
    /\ ~cancelled
    /\ ScanTimers # {}

\* The session has timed out.
TimedOut == \E i \in 1..Len(outcomes) : outcomes[i] = "timedOut"

C12_CameraFailureIsTerminal ==
    gum = "failed" =>
        /\ mounted => (phase = "ERROR" /\ error = "camera")
        /\ phase \in {"ERROR", "SCANNING"}
        /\ inflight = {} /\ ~metaPending /\ lastTick = "none"
        /\ foundResponses = 0 /\ outcomes \in {<<>>, <<"cancelled">>}
        /\ timers = {} /\ scanTimerRef = 0 /\ backHomeTimerRef = 0
        /\ ~trackLive

\* The camera was refused and the component shows the error.
C12_Witness ==
    /\ gum = "failed"
    /\ mounted
    /\ phase = "ERROR"
    /\ error = "camera"

\* Round trips the delay policy is compared at: none, one interval, the whole
\* scan.
ProbeRtts == {0, SCAN_INTERVAL_MS, SCAN_DURATION_MS}

LastRow == events[Len(events)]

\* A timing is a finite number >= 0.
FiniteNonNegative(v) == v.t = "number" /\ v.n >= 0

\* The last call was recordFaceMetricEvent and its INSERT was executed.
Recorded == call.op = "record" /\ call.fault \in {"none", "prune"}

\* C15: whatever the inputs of the writes were, each of the four timings of
\* every stored event is absent (null) or a finite number >= 0.
C15_StoredTimingsNormalised ==
    \A i \in 1..Len(events) : \A f \in TimingFields :
        events[i][f] = JsNull \/ FiniteNonNegative(events[i][f])

\* Two events are stored, the second written from an input whose timings
\* were all NaN; its timings are absent.
C15_Witness ==
    /\ Len(events) = 2
    /\ Recorded
    /\ \A f \in TimingFields : call.arg[f] = NaN /\ LastRow[f] = JsNull
    /\ FiniteNonNegative(events[1].clientRttMs)

\* The last call was a write, by the function or through the route, of an
\* event whose clientRttMs is -5, with the storage working.
WroteNegativeRtt ==
    /\ call.fault = "none"
    /\ \/ call.op = "record" /\ call.arg.clientRttMs = Number(0 - 5000)
       \/ /\ call.op = "metricsPost"
          /\ call.arg.parses
          /\ call.arg.payload.client_rtt_ms = Number(0 - 5000)

\* C16 (as claimed): a metric write whose clientRttMs is negative is not
\* rejected: it is answered without an error and its event is stored, with
\* clientRttMs absent.
C16_NegativeRttNotRejected ==
    WroteNegativeRtt =>
        /\ result.kind = "return" \/ result = Response(200, [ok |-> TRUE])
        /\ events # <<>>
        /\ LastRow.clientRttMs = JsNull
        /\ LastRow.source = call.arg.source

\* The text a stored row holds for an input text.
StoredText(v) ==
    IF v.t = "string" /\ \E i \in 1..Len(v.s) : v.s[i] # " "
      THEN Str(Trim(v.s))
      ELSE JsNull

\* The client_rtt_ms of the last request to the metrics route is missing,
\* not a number, not finite or negative.
PostedInvalidRtt(c) ==
    /\ c.op = "metricsPost"
    /\ c.arg.parses
    /\ ~FiniteNonNegative(c.arg.payload.client_rtt_ms)

\* C16 (amended): recordFaceMetricEvent rejects no input.  When its INSERT
\* runs, one row is added, holding every timing that is a finite number >= 0
\* unchanged and null for every other, every text trimmed and null for a
\* blank or non-string one, and the source.  The metrics route requires
\* client_rtt_ms: a request whose client_rtt_ms is missing, not finite or
\* negative is answered 400 and stores nothing.
C16_IngestNormalisesRouteRequiresRtt ==
    /\ [](Recorded =>
            /\ events # <<>>
            /\ LastRow.source = call.arg.source
            /\ LastRow.createdAt <= dbNow
            /\ \A f \in TimingFields :
                   LastRow[f] = IF FiniteNonNegative(call.arg[f])
                                  THEN call.arg[f] ELSE JsNull
            /\ \A f \in TextFields : LastRow[f] = StoredText(call.arg[f])
            /\ (result.kind = "return") = (call.fault = "none"))
    /\ [][/\ Len(events') <= Len(events) + 1
          /\ PostedInvalidRtt(call')
               => /\ result' = Response(400, [error |-> "client_rtt_ms"])
                  /\ events' = events]_vars

\* recordFaceMetricEvent was given clientRttMs = -5 with every other field
\* valid: the row holds the other fields and no clientRttMs.
C16_Witness ==
    /\ Recorded
    /\ call.arg = [ValidInput EXCEPT !.clientRttMs = Number(0 - 5000)]
    /\ LastRow.clientRttMs = JsNull
    /\ LastRow.serverProcessingMs = Number(40000)
    /\ LastRow.sessionId = Str(<<"s1">>)
    /\ LastRow.status = Str(<<"found">>)

\* C17: for every event reported by a client, networkLatencyMsEst is
\* max(0, clientRttMs - serverProcessingMs) when serverProcessingMs is
\* present and null when it is absent; it is never negative and never more
\* than clientRttMs.  The stored event of an accepted request holds the value
\* derived from the request's own two timings.
C17_NetworkLatencyEstimate ==
    /\ \A i \in 1..Len(events) :
           events[i].source = "client" =>
               /\ events[i].serverProcessingMs = JsNull
                    => events[i].networkLatencyMsEst = JsNull
               /\ events[i].serverProcessingMs # JsNull
                    => events[i].networkLatencyMsEst =
                           Number(Max(0, events[i].clientRttMs.n
                                           - events[i].serverProcessingMs.n))
               /\ events[i].networkLatencyMsEst # JsNull
                    => /\ events[i].networkLatencyMsEst.n >= 0
                       /\ events[i].networkLatencyMsEst.n
                            <= events[i].clientRttMs.n
    /\ (call.op = "metricsPost" /\ result = Response(200, [ok |-> TRUE]))
         => /\ events # <<>>
            /\ LastRow.source = "client"
            /\ LastRow.clientRttMs = call.arg.payload.client_rtt_ms
            /\ LastRow.serverProcessingMs =
                   IF FiniteNonNegative(call.arg.payload.server_processing_ms)
                     THEN call.arg.payload.server_processing_ms
                     ELSE JsNull

\* Two client events are stored: one without serverProcessingMs and without
\* the estimate, one whose serverProcessingMs is more than its clientRttMs
\* and whose estimate is 0.
C17_Witness ==
    /\ Len(events) = 2
    /\ call.op = "metricsPost"
    /\ events[1].source = "client"
    /\ events[1].serverProcessingMs = JsNull
    /\ events[1].networkLatencyMsEst = JsNull
    /\ events[2].serverProcessingMs # JsNull
    /\ events[2].serverProcessingMs.n > events[2].clientRttMs.n
    /\ events[2].networkLatencyMsEst = Number(0)

\* C18: recordFaceMetricEvent returns normally whether or not opening the
\* database, the INSERT or the pruning fails.
C18_IngestNeverRaises ==
    call.op = "record" => result.kind = "return"

\* The last request to the metrics route parsed and carried a valid
\* client_rtt_ms.
WellFormedPost ==
    /\ call.op = "metricsPost"
    /\ call.arg.parses
    /\ FiniteNonNegative(call.arg.payload.client_rtt_ms)

\* C19: a well-formed request to the metrics route is answered 200 {ok: true}
\* whether or not the event could be persisted.
C19_WellFormedPostAnsweredOk ==
    WellFormedPost => result = Response(200, [ok |-> TRUE])

\* C20: the response of the identify gateway is the response it gives to the
\* same request with a working metrics store, whichever storage operation
\* failed while the event was recorded.
C20_MetricsFailureKeepsResponse ==
    call.op = "identify" =>
        result = IdentifyPost(<<>>, TRUE, call.arg, 0, "none").result

\* The upstream answered with a JSON object, recording its event failed and
\* was logged, and the gateway answered the JSON with the upstream's status.
C20_Witness ==
    /\ call.op = "identify"
    /\ call.fault # "none"
    /\ call.arg.upstream = "object"
    /\ logged = 1
    /\ result = Response(call.arg.status, GatewayPayload(call.arg))
    /\ call.arg.body.latency_ms = Number(12345)

\* The rows of events' that this step added.
AddedRows ==
    {i \in 1..Len(events') : \A j \in 1..Len(events) : events[j] # events'[i]}

\* C22: ids increase over the life of the log.  A row added by any step has
\* an id greater than every id given before, pruned rows included, and the
\* rows of the table are in increasing id order, which is insertion order.
C22_IdsIncrease ==
    /\ [][\A i \in AddedRows :
              /\ events'[i].id > lastId
              /\ lastId' = events'[i].id
              /\ i = Len(events')]_vars
    /\ [](\A i \in 1..Len(events) :
              /\ events[i].id <= lastId
              /\ \A j \in 1..Len(events) :
                     i < j => /\ events[i].id < events[j].id
                              /\ events[i].createdAt <= events[j].createdAt)

\* An insert pruned the older row and a later insert followed: the table
\* holds ids 2 and 3, id 1 is gone.
C22_Witness ==
    /\ Len(events) = 2
    /\ events[1].id = 2
    /\ events[2].id = 3
    /\ events[1].createdAt > RETENTION_DAYS
    /\ lastId = 3

(***************************************************************************)
(* Properties of window resolution and of the aggregation.                 *)
(***************************************************************************)

\* A query parameter is supplied: a text that is not blank.
Supplied(v) == v.t = "string" /\ \E i \in 1..Len(v.s) : v.s[i] # " "

\* The instant a supplied parameter stands for; -1 when it has none.
InstantOf(v) ==
    IF ParseDateInput(Trim(v.s)) = JsNull
      THEN 0 - 1
      ELSE ParseDateInput(Trim(v.s)).n

\* The parameters form a valid custom range.
ValidRange(input) ==
    /\ Supplied(input.from) /\ Supplied(input.to)
    /\ InstantOf(input.from) >= 0 /\ InstantOf(input.to) >= 0
    /\ InstantOf(input.from) < InstantOf(input.to)

NoneSupplied(input) == ~Supplied(input.from) /\ ~Supplied(input.to)

\* C23: resolveFaceMetricsWindow returns ok exactly when no bound is supplied
\* (mode today, from midnight of today to now) or both are supplied, parse and
\* from < to (mode custom, the two instants); every other input is an error,
\* never the default window.
C23_WindowOkExactly ==
    call.op = "resolve" =>
        /\ result.ok = (NoneSupplied(call.arg) \/ ValidRange(call.arg))
        /\ NoneSupplied(call.arg) =>
               /\ result.value.mode = "today"
               /\ result.value.to = call.at
               /\ result.value.from = call.at - (call.at % DAY_MS)
               /\ result.value.from <= result.value.to
        /\ ValidRange(call.arg) =>
               /\ result.value.mode = "custom"
               /\ result.value.from = InstantOf(call.arg.from)
               /\ result.value.to = InstantOf(call.arg.to)
        /\ ~result.ok => DOMAIN result = {"ok", "error"}

\* Only from was supplied, a valid instant, after the first day: an error.
C23_Witness ==
    /\ call.op = "resolve"
    /\ call.arg = [from |-> Str(<<" ", "d30">>), to |-> Undefined]
    /\ dbNow > 0
    /\ ~result.ok

\* C24: the three window errors are told apart.  The message names the case
\* that applies: one bound without the other, a bound that does not parse,
\* from not earlier than to; the three messages differ.
C24_WindowErrorsDistinct ==
    /\ call.op = "resolve" /\ ~result.ok =>
           /\ Supplied(call.arg.from) # Supplied(call.arg.to)
                <=> result.error = BothTogetherError
           /\ ( /\ Supplied(call.arg.from) /\ Supplied(call.arg.to)
                /\ (InstantOf(call.arg.from) < 0 \/ InstantOf(call.arg.to) < 0) )
                <=> result.error = InvalidDateError
           /\ ( /\ Supplied(call.arg.from) /\ Supplied(call.arg.to)
                /\ InstantOf(call.arg.from) >= 0 /\ InstantOf(call.arg.to) >= 0
                /\ InstantOf(call.arg.from) >= InstantOf(call.arg.to) )
                <=> result.error = FromEarlierError
    /\ Cardinality({BothTogetherError, InvalidDateError, FromEarlierError}) = 3

\* from = to, both valid: the error says from must be earlier.
C24_Witness ==
    /\ call.op = "resolve"
    /\ InstantOf(call.arg.from) = 30 * DAY_MS
    /\ InstantOf(call.arg.to) = 30 * DAY_MS
    /\ result = [ok |-> FALSE, error |-> FromEarlierError]

\* How many elements of the sample are below v, and how many are v or below.
CountBelow(values, v) == Cardinality({i \in 1..Len(values) : values[i] < v})
CountUpTo(values, v) == Cardinality({i \in 1..Len(values) : values[i] <= v})

\* The nearest rank asked for: ceil(p/100 * n), kept within 1..n.
NearestRank(p, n) ==
    LET k == IF (p * n) % 100 = 0 THEN (p * n) \div 100
                                  ELSE (p * n) \div 100 + 1
    IN IF k < 1 THEN 1 ELSE IF k > n THEN n ELSE k

\* C26: percentile is null for an empty sample; otherwise it is the element
\* whose place in ascending order is the nearest rank ceil(p/100 * n), kept
\* within the sample, whatever the order of the input.  For the sample
\* 100, 200, 300, 400 in any order, p50 is 200 and p90 is 400.
C26_PercentileNearestRank ==
    call.op = "percentile" =>
        /\ (result = JsNull) = (call.arg = <<>>)
        /\ call.arg # <<>> =>
               /\ \E i \in 1..Len(call.arg) : call.arg[i] = result.n
               /\ CountBelow(call.arg, result.n)
                    < NearestRank(call.p, Len(call.arg))
               /\ NearestRank(call.p, Len(call.arg))
                    <= CountUpTo(call.arg, result.n)
        /\ {call.arg[i] : i \in 1..Len(call.arg)} = SampleValues
             /\ Len(call.arg) = 4
             => /\ call.p = 50 => result = Number(200)
                /\ call.p = 90 => result = Number(400)

\* p90 of the sample given in descending order.
C26_Witness ==
    /\ call.op = "percentile"
    /\ call.arg = <<400, 300, 200, 100>>
    /\ call.p = 90
    /\ result = Number(400)

\* C21: only an insert deletes, and it deletes exactly the rows older than
\* 30 days.  A step that changes the table is a recordFaceMetricEvent call;
\* it adds one row, stamped with the time of the insert, as the last row, and
\* keeps of the earlier rows exactly those created within the last 30 days,
\* in their order.  Reads and the passing of time leave the table alone.
C21_PruneOnlyOnInsert ==
    [][/\ events' # events =>
            /\ call'.op = "record"
            /\ events' # <<>>
            /\ events'[Len(events')].createdAt = dbNow
            /\ events'[Len(events')].id = lastId'
            /\ \A i \in 1..Len(events') :
                   events'[i].createdAt >= dbNow - RETENTION_DAYS
            /\ SubSeq(events', 1, Len(events') - 1)
                 = SelectSeq(events, LAMBDA r :
                       r.createdAt >= dbNow - RETENTION_DAYS)
       /\ call'.op # "record" => events' = events]_vars

\* An insert on day 31 removed the row of day 0 and kept its own.
C21_Witness ==
    /\ call.op = "record"
    /\ dbNow = RETENTION_DAYS + 1
    /\ Len(events) = 1
    /\ events[1].id = 2
    /\ events[1].createdAt = dbNow

\* The last call was a read that was answered with the aggregation.
ReadDone ==
    /\ call.op = "metricsGet"
    /\ result.kind = "response"
    /\ result.status = 200

\* The rows of the table that are server events of a session.
SessionEvents == SelectSeq(events, LAMBDA r :
                     r.source = "server" /\ r.sessionId # JsNull)

\* The attempts counted over all sessions of a response.
RECURSIVE AttemptsIn(_)
AttemptsIn(sessions) ==
    IF sessions = <<>>
      THEN 0
      ELSE Head(sessions).attempt_count + AttemptsIn(Tail(sessions))

\* C25: the window is half-open.  The sessions of a response are built from
\* exactly the server events of sessions whose created_at is at or after the
\* window's from and before its to.
C25_WindowHalfOpen ==
    ReadDone =>
        AttemptsIn(result.body.grouped.sessions)
          = Len(SelectSeq(SessionEvents, LAMBDA r :
                /\ result.body.grouped.window.from
                     <= ParseSqliteUtc(r.createdAt)
                /\ ParseSqliteUtc(r.createdAt)
                     < result.body.grouped.window.to))

\* a is b / c rounded to the nearest multiple of unit
RoundedQuotient(a, b, c, unit) ==
    /\ a % unit = 0
    /\ 2 * (a * c - b) <= unit * c
    /\ 2 * (b - a * c) <= unit * c

\* The successful sessions of the last response.
SuccessfulSessions ==
    SelectSeq(result.body.grouped.sessions, LAMBDA x : x.success)

\* C27: success_rate is successful sessions / total sessions (to four
\* decimals) and exactly 0 when the window holds no session;
\* avg_attempts_until_success and the two first-success percentiles are taken
\* over the successful sessions only and are null when there is none.
C27_FunnelStatistics ==
    ReadDone =>
        LET summary == result.body.grouped.session_summary
            total == Len(result.body.grouped.sessions)
            won == Len(SuccessfulSessions)
            attempts == [i \in 1..won |->
                            SuccessfulSessions[i].attempts_until_success.n]
            times == {SuccessfulSessions[i].first_success_time_ms : i \in 1..won}
        IN /\ summary.total_sessions = total
           /\ summary.successful_sessions = won
           /\ summary.failed_sessions = total - won
           /\ total = 0 => summary.success_rate = 0
           /\ total > 0 => RoundedQuotient(summary.success_rate,
                                           RATE_SCALE * won, total, 1)
           /\ won = 0 => /\ summary.avg_attempts_until_success = JsNull
                         /\ summary.p50_first_success_time_ms = JsNull
                         /\ summary.p90_first_success_time_ms = JsNull
           /\ won > 0 =>
                  /\ summary.avg_attempts_until_success.t = "number"
                  /\ RoundedQuotient(summary.avg_attempts_until_success.n,
                                     1000 * Sum(attempts), won, 10)
                  /\ summary.p50_first_success_time_ms \in times
                  /\ summary.p90_first_success_time_ms \in times

\* Two sessions, one of them successful at its second attempt: rate 0.5,
\* average attempts 2.
C27_Witness ==
    /\ ReadDone
    /\ result.body.grouped.session_summary.total_sessions = 2
    /\ result.body.grouped.session_summary.success_rate = RATE_SCALE \div 2
    /\ result.body.grouped.session_summary.avg_attempts_until_success
         = Number(2000)
    /\ result.body.grouped.session_summary.p90_first_success_time_ms
         = Number(0)

\* The server events of session sid that the queries of the last response
\* selected, in insertion order.
EventsOf(sid) ==
    SelectSeq(events, LAMBDA r :
        /\ r.source = "server"
        /\ r.sessionId = sid
        /\ r.createdAt >= ToSqliteUtc(result.body.grouped.window.from)
        /\ r.createdAt <= ToSqliteUtc(result.body.grouped.window.to))

\* C28: for every session of a response, over its server events in
\* insertion order: attempt_count is their number, success says whether one
\* of them is found, attempts_until_success is the place of the first found
\* one (null without one), avg_server_processing_ms is the mean of the
\* events that carry the field (null without one).  Every session with an
\* event has exactly one entry.
C28_SessionFigures ==
    ReadDone =>
        LET sessions == result.body.grouped.sessions
        IN /\ \A k \in 1..Len(sessions) :
                  LET x == sessions[k]
                      own == EventsOf(x.session_id)
                      found == {i \in 1..Len(own) :
                                   own[i].status = Str(<<"found">>)}
                      timed == ColumnValues(own, "serverProcessingMs")
                  IN /\ x.attempt_count = Len(own)
                     /\ Len(own) >= 1
                     /\ x.success = (found # {})
                     /\ found = {} => x.attempts_until_success = JsNull
                     /\ found # {} =>
                            /\ x.attempts_until_success.t = "number"
                            /\ x.attempts_until_success.n \in found
                            /\ \A i \in found :
                                   x.attempts_until_success.n <= i
                     /\ timed = <<>> => x.avg_server_processing_ms = JsNull
                     /\ timed # <<>> =>
                            /\ x.avg_server_processing_ms.t = "number"
                            /\ RoundedQuotient(x.avg_server_processing_ms.n,
                                               Sum(timed), Len(timed), 10)
           /\ \A i \in 1..Len(SessionEvents) :
                  EventsOf(SessionEvents[i].sessionId) # <<>> =>
                      Cardinality({k \in 1..Len(sessions) :
                          sessions[k].session_id = SessionEvents[i].sessionId})
                        = 1

\* Session s1 failed twice and then succeeded: 3 attempts, success at the
\* third, mean processing time (50 + 50 + 70) / 3 = 56.67 ms.
C28_Witness ==
    /\ ReadDone
    /\ Len(result.body.grouped.sessions) = 1
    /\ result.body.grouped.sessions[1].session_id = Str(<<"s1">>)
    /\ result.body.grouped.sessions[1].attempt_count = 3
    /\ result.body.grouped.sessions[1].success
    /\ result.body.grouped.sessions[1].attempts_until_success = Number(3)
    /\ result.body.grouped.sessions[1].avg_server_processing_ms = Number(56670)

\* The server events stored without a session id.
NoSessionEvents == SelectSeq(events, LAMBDA r :
                       r.source = "server" /\ r.sessionId = JsNull)

\* The server events of sessions that the queries of the last response
\* selected.
SelectedSessionEvents ==
    SelectSeq(SessionEvents, LAMBDA r :
        /\ r.createdAt >= ToSqliteUtc(result.body.grouped.window.from)
        /\ r.createdAt <= ToSqliteUtc(result.body.grouped.window.to))

\* C29: a server event stored without a session id is in no session and not
\* in total_sessions - the sessions are those of the selected events that
\* have a session id, and their attempts add up to the number of these
\* events - but it is counted in request_count and in the global timings.
C29_NoSessionEvents ==
    ReadDone =>
        LET sessions == result.body.grouped.sessions
        IN /\ \A k \in 1..Len(sessions) :
                  /\ sessions[k].session_id.t = "string"
                  /\ Trim(sessions[k].session_id.s) # <<>>
           /\ AttemptsIn(sessions) = Len(SelectedSessionEvents)
           /\ result.body.grouped.session_summary.total_sessions
                = Cardinality({SelectedSessionEvents[i].sessionId :
                                   i \in 1..Len(SelectedSessionEvents)})
           /\ result.body.request_count
                = Len(SessionEvents) + Len(NoSessionEvents)
           /\ \A i \in 1..Len(NoSessionEvents) :
                  NoSessionEvents[i].serverProcessingMs # JsNull =>
                      /\ result.body.server_processing_ms.min.t = "number"
                      /\ result.body.server_processing_ms.min.n
                           <= NoSessionEvents[i].serverProcessingMs.n
                      /\ result.body.server_processing_ms.max.n
                           >= NoSessionEvents[i].serverProcessingMs.n

\* Of two server events in the window the one recorded with a blank session
\* id is stored without one: one session with one attempt, request_count 2,
\* and the smallest processing time is that of the event without a session.
C29_Witness ==
    /\ ReadDone
    /\ Len(NoSessionEvents) = 1
    /\ Len(SelectedSessionEvents) = 1
    /\ result.body.grouped.session_summary.total_sessions = 1
    /\ result.body.grouped.sessions[1].attempt_count = 1
    /\ result.body.request_count = 2
    /\ result.body.server_processing_ms.min = Number(10000)
    /\ NoSessionEvents[1].createdAt
         >= ToSqliteUtc(result.body.grouped.window.from)

\* C30: the global statistics of a response are those of the events in the
\* requested window: request_count is the number of server events whose
\* created_at the window selects.
C30_GlobalsOfWindow ==
    ReadDone =>
        result.body.request_count
          = Len(SelectSeq(events, LAMBDA r :
                /\ r.source = "server"
                /\ r.createdAt >= ToSqliteUtc(result.body.grouped.window.from)
                /\ r.createdAt <= ToSqliteUtc(result.body.grouped.window.to)))

\* The server events of the table.
ServerEvents == SelectSeq(events, LAMBDA r : r.source = "server")

\* The server events whose status and reason are shown as those of entry.
EventsShownAs(entry) ==
    SelectSeq(ServerEvents, LAMBDA r :
        /\ Coalesce(r.status) = entry.status
        /\ Coalesce(r.reason) = entry.reason)

\* The counts of the entries added up.
RECURSIVE CountSum(_)
CountSum(counts) ==
    IF counts = <<>> THEN 0 ELSE Head(counts).count + CountSum(Tail(counts))

\* C31: status_reason_counts of a response has one entry per (status, reason)
\* pair of the server events - no two entries show the same pair, every
\* server event's pair has an entry - the count of an entry is the number of
\* server events of its pair, the counts add up to request_count, and the
\* entries are in the order of non-increasing count.
C31_OneEntryPerPair ==
    ReadDone =>
        LET counts == result.body.status_reason_counts
        IN /\ \A i, j \in 1..Len(counts) :
                  (/\ counts[i].status = counts[j].status
                   /\ counts[i].reason = counts[j].reason) => i = j
           /\ \A k \in 1..Len(ServerEvents) :
                  \E i \in 1..Len(counts) :
                      /\ counts[i].status = Coalesce(ServerEvents[k].status)
                      /\ counts[i].reason = Coalesce(ServerEvents[k].reason)
           /\ \A i \in 1..Len(counts) :
                  counts[i].count = Len(EventsShownAs(counts[i]))
           /\ CountSum(counts) = result.body.request_count
           /\ \A i \in 1..(Len(counts) - 1) :
                  counts[i].count >= counts[i + 1].count

\* A statistic that is null or a number of milliseconds with at most two
\* decimals (a multiple of ten thousandths).
TwoDecimalsOrNull(v) == v = JsNull \/ (v.t = "number" /\ v.n % 10 = 0)

\* C32: every numeric field of a response has at most two decimals - the
\* timings, the averages, the percentiles and success_rate - and a statistic
\* without a value is null: an average, minimum, maximum or last value of a
\* column that no event carries, and the averages over no session.
C32_TwoDecimalsEverywhere ==
    ReadDone =>
        LET body == result.body
            summary == body.grouped.session_summary
            sessions == body.grouped.sessions
            globals == <<"server_processing_ms", "client_rtt_ms",
                         "gateway_upstream_ms", "network_latency_ms_est">>
            columns == <<"serverProcessingMs", "clientRttMs",
                         "gatewayUpstreamMs", "networkLatencyMsEst">>
            averages == <<"avg_server_processing_ms", "avg_client_rtt_ms",
                          "avg_gateway_upstream_ms",
                          "avg_network_latency_ms_est">>
        IN /\ \A k \in 1..4 :
                  /\ TwoDecimalsOrNull(body[averages[k]])
                  /\ TwoDecimalsOrNull(body[globals[k]].min)
                  /\ TwoDecimalsOrNull(body[globals[k]].max)
                  /\ TwoDecimalsOrNull(body[globals[k]].last)
                  /\ ColumnValues(events, columns[k]) = <<>> =>
                         /\ body[averages[k]] = JsNull
                         /\ body[globals[k]].min = JsNull
                         /\ body[globals[k]].max = JsNull
                         /\ body[globals[k]].last = JsNull
                  /\ \A i \in 1..Len(sessions) :
                         TwoDecimalsOrNull(sessions[i][averages[k]])
           /\ \A i \in 1..Len(sessions) :
                  TwoDecimalsOrNull(sessions[i].first_success_time_ms)
           /\ TwoDecimalsOrNull(summary.avg_attempts_until_success)
           /\ TwoDecimalsOrNull(summary.p50_first_success_time_ms)
           /\ TwoDecimalsOrNull(summary.p90_first_success_time_ms)
           /\ TwoDecimalsOrNull(summary.avg_attempt_latency_per_session_ms)
           /\ summary.successful_sessions = 0 =>
                  summary.avg_attempts_until_success = JsNull
           /\ (100 * summary.success_rate) % RATE_SCALE = 0

\* C33: a read leaves the event log as it is - no row added, changed or
\* pruned, whatever the window and however old the rows - and two reads of
\* the same window with no insert between them return the same sessions and
\* the same session summary.  (The window is the same when the two queries
\* are equal and explicit, or equal and asked at the same instant.)
C33_ReadsLeaveLog ==
    [][call'.op = "metricsGet" =>
           /\ events' = events
           /\ lastId' = lastId
           /\ (/\ call.op = "metricsGet"
               /\ call.arg = call'.arg
               /\ call.arg.from # JsNull \/ call.at = call'.at
               /\ result.status = 200
               /\ result'.status = 200)
                 => result'.body.grouped = result.body.grouped]_vars

\* A read on day 31 of the window from day 0 to day 31 finds the session of
\* day 0, whose row no insert has pruned, still in the table.
C33_Witness ==
    /\ ReadDone
    /\ dbNow > RETENTION_DAYS
    /\ Len(events) = 1
    /\ events[1].createdAt = 0
    /\ Len(result.body.grouped.sessions) = 1
    /\ result.body.grouped.sessions[1].attempt_count = 1

\* The request of a call of the metrics write route carries no session id:
\* none that is a non-blank text in the body, and no x-session-id header.
LacksSessionId(c) ==
    /\ AsOptionalText(c.arg.payload.session_id) = JsNull
    /\ c.arg.header = JsNull

\* C34: the metrics write route requires session_id and client_rtt_ms.  A
\* request whose body parses and lacks a valid one of the two is answered
\* with an error and the table is left as it was; a request that has both
\* is recorded whatever its other fields are (the storage working), and the
\* status stored is found, unknown, error or absent.
C34_SessionIdAndRttRequired ==
    [][(call'.op = "metricsPost" /\ call'.arg.parses) =>
           /\ (\/ LacksSessionId(call')
               \/ AsOptionalNumber(call'.arg.payload.client_rtt_ms) = JsNull)
                 => /\ result'.status >= 400
                    /\ events' = events
           /\ (/\ ~LacksSessionId(call')
               /\ AsOptionalNumber(call'.arg.payload.client_rtt_ms) # JsNull
               /\ call'.fault = "none")
                 => result'.status = 200
           /\ result'.status = 200 =>
                  /\ events' # <<>>
                  /\ \/ events'[Len(events')].status = JsNull
                     \/ events'[Len(events')].status.s \in MetricStatuses]_vars

\* C35: an identify request that the gateway forwards to the face service
\* is recorded as exactly one server event, the storage working: the call
\* adds one row, the last of the table, of source server, which carries the
\* status, reason and timings of the upstream answer when the call returned
\* and status error with reason proxy_error when it threw.
C35_OneEventPerForwardedRequest ==
    [][(/\ call'.op = "identify"
        /\ dbNow' = dbNow
        /\ call'.arg.upstream # "nofile"
        /\ call'.fault = "none") =>
           /\ lastId' = lastId + 1
           /\ events' # <<>>
           /\ LET row == events'[Len(events')]
              IN /\ row.id = lastId'
                 /\ row.source = "server"
                 /\ row.gatewayUpstreamMs = Number(call'.arg.elapsed)
                 /\ call'.arg.upstream = "throws" =>
                        /\ row.status = Str(<<"error">>)
                        /\ row.reason = Str(<<"proxy_error">>)
                 /\ call'.arg.upstream = "object" =>
                        /\ row.status = GatewayStatus(call'.arg.body.status)
                        /\ row.reason = StringOrNull(call'.arg.body.reason)]_vars

\* C37: every session of a response has at least one attempt; it is a
\* success exactly when attempts_until_success is not null, which then lies
\* between 1 and attempt_count; first_success_time_ms is a number exactly
\* for a success, never negative, and 0 when the first event of the session
\* is found; final_status and final_reason are those of the last of its
\* events in insertion order; and total_sessions is the sum of
\* successful_sessions and failed_sessions.
C37_SessionInvariants ==
    ReadDone =>
        LET sessions == result.body.grouped.sessions
            summary == result.body.grouped.session_summary
        IN /\ \A k \in 1..Len(sessions) :
                  LET x == sessions[k]
                      own == EventsOf(x.session_id)
                  IN /\ x.attempt_count >= 1
                     /\ x.success = (x.attempts_until_success # JsNull)
                     /\ x.success =>
                            /\ x.attempts_until_success.n >= 1
                            /\ x.attempts_until_success.n <= x.attempt_count
                            /\ x.first_success_time_ms.t = "number"
                            /\ x.first_success_time_ms.n >= 0
                     /\ ~x.success => x.first_success_time_ms = JsNull
                     /\ own # <<>>
                     /\ own[1].status = Str(<<"found">>) =>
                            x.first_success_time_ms = Number(0)
                     /\ x.final_status = own[Len(own)].status
                     /\ x.final_reason = own[Len(own)].reason
           /\ summary.total_sessions
                = summary.successful_sessions + summary.failed_sessions
           /\ summary.total_sessions = Len(sessions)

\* Session s1 failed on day 0, succeeded on day 30 and failed again: three
\* attempts, success at the second, 30 days to the first success, and the
\* final status is that of the last attempt.
C37_Witness ==
    /\ ReadDone
    /\ Len(result.body.grouped.sessions) = 1
    /\ result.body.grouped.sessions[1].attempt_count = 3
    /\ result.body.grouped.sessions[1].success
    /\ result.body.grouped.sessions[1].attempts_until_success = Number(2)
    /\ result.body.grouped.sessions[1].first_success_time_ms
         = Number(RETENTION_DAYS * DAY_MS * 1000)
    /\ result.body.grouped.sessions[1].final_status = Str(<<"unknown">>)

\* The scan has started: a tick of the loop is in flight or scheduled.
ScanStarted == phase = "SCANNING" /\ (inflight # {} \/ ScanTimers # {})

\* C38: a scan session that has started and is not torn down eventually
\* leaves SCANNING for FOUND_WAITING_GESTURE or NOT_RECOGNIZED: the ticks
\* are not rescheduled forever.
C38_ScanTerminates ==
    ScanStarted ~> (phase \in {"FOUND_WAITING_GESTURE", "NOT_RECOGNIZED"})

\* The session timed out at a tick that a timer set at the horizon started.
C38_Witness ==
    /\ phase = "NOT_RECOGNIZED"
    /\ mounted
    /\ now > MaxNow
    /\ lastTick \in {"notFound", "fetchError", "captureError"}
    /\ Elapsed >= SCAN_DURATION_MS

\* C36: the camera is off before the chat connects.  In every reachable
\* state where the chat phase is CONNECTING_REALTIME or READY no camera track
\* is live, neither the scan's nor the registration's, whichever of the two
\* paths led to the chat.
C36_CameraOffBeforeChat ==
    (mounted /\ phase \in {"CONNECTING_REALTIME", "READY"})
        => (~trackLive /\ ~regTrackLive)

\* C36 happens on both paths: a chat that is READY after a recognition, and
\* one that is READY after a registration whose camera had been granted.
C36_Witness ==
    /\ mounted
    /\ phase = "READY"
    /\ \/ (isOldUser /\ gum = "done" /\ userRecognizedCalls # <<>>)
       \/ (~isOldUser /\ regGum = "done" /\ onCompleteCalls # <<>>)

\* C39: onComplete is called at most once per mounted registration flow, and
\* never once that flow is unmounted.
C39_OnCompleteOnceWhileMounted ==
    /\ Len(onCompleteCalls) <= 1
    /\ \A i \in 1..Len(onCompleteCalls) : onCompleteCalls[i].mounted

\* The conversation store is at rest within its bounds: at most MAX_SESSIONS
\* sessions, each history starting with the system prompt and holding at most
\* MAX_MESSAGES_PER_SESSION messages plus the system prompt and the latest
\* reply.
StoreBounded ==
    /\ Len(conversationStore) <= MAX_SESSIONS
    /\ \A i \in 1..Len(conversationStore) :
          /\ conversationStore[i].hist[1] = "system"
          /\ Len(conversationStore[i].hist) <= MAX_MESSAGES_PER_SESSION + 2

\* A step that removes a session removes the first key of the Map, the
\* session created first.
EvictsOldest ==
    \A i \in 1..Len(conversationStore) :
        conversationStore[i].sid \notin
                {conversationStore'[k].sid : k \in 1..Len(conversationStore')}
            => i = 1

\* C40: the conversation store stays bounded after any sequence of requests,
\* successful or failing: once no request is pending it holds at most
\* MAX_SESSIONS sessions, every history starts with the system prompt and
\* holds at most MAX_MESSAGES_PER_SESSION messages plus the system prompt and
\* the latest reply; and a session that is removed is the oldest one.
C40_StoreStaysBounded ==
    [][/\ EvictsOldest
       /\ (chatPending' = {}) => StoreBounded']_vars

====
